---- MODULE Spec2Model ----
(***************************************************************************)
(* Model of the adaptive processing pipeline of coachAI.                   *)
(*                                                                         *)
(* Part 1: the adaptive processing router                                  *)
(*   src/src/utils/AdaptiveProcessingRouter.ts                             *)
(*     selectProcessingTier, validateProcessingTier, getRecommendedTier,   *)
(*     getFallbackTier, updateConfigForConnectivity,                       *)
(*     initializeProcessingConfig, checkConnectivity, routeVideoAnalysis.  *)
(*                                                                         *)
(* Part 2: the device capability cache                                     *)
(*   src/unnamed/part_004 (DeviceCapabilityDetector)                       *)
(*     detectDeviceCapabilities, cacheDeviceCapabilities,                  *)
(*     loadCachedCapabilities; src/src/database/DatabaseManager.ts.        *)
(* Part 3: the strategies handed to routeVideoAnalysis                     *)
(*   src/src/video/VideoAnalysisIntegration.ts performAnalysisByTier,      *)
(*   src/src/database/schema.ts:180-224 performMLAnalysisWithFallback.     *)
(* Part 4: the analysis engines                                            *)
(*   src/src/analysis/BasicAnalysisEngine.ts,                              *)
(*   src/src/ml/LightweightFormAnalyzer.ts.                                *)
(* Part 5: the feedback generator, src/unnamed/part_003.                   *)
(* Part 6: the adaptive recommendation system                              *)
(*   src/src/feedback/AdaptiveRecommendationSystem.ts.                     *)
(* Part 7: the shooting phases                                             *)
(*   src/src/ml/LightweightFormAnalyzer.ts detectShootingPhases.           *)
(*                                                                         *)
(* The specifications share the module's variables:                        *)
(*   Spec      one call of routeVideoAnalysis(videoPath, config, strategy) *)
(*             for every config and every outcome of every strategy        *)
(*             invocation; the router suspends at each await, so a call is *)
(*             one start step plus one step per strategy invocation.       *)
(*   SpecTier  selectProcessingTier applied to every combination of        *)
(*             capabilities, connectivity and consent, and getFallbackTier *)
(*             applied repeatedly from the selected tier.                  *)
(*   SpecConfig  the life of the app's ProcessingConfig: built by          *)
(*             initializeProcessingConfig, recomputed by                   *)
(*             updateConfigForConnectivity on every connectivity change.   *)
(*   SpecCache one caller of detectDeviceCapabilities, calling again and   *)
(*             again while days pass and the database opens and closes.    *)
(*   SpecRace  concurrent calls of detectDeviceCapabilities interleaved at *)
(*             their awaits.                                               *)
(*   SpecPipeline  one call of routeVideoAnalysis with one of the shipped  *)
(*             strategies, each invocation running the strategy's code.    *)
(*   SpecAnalysis  the two engines analysing one video after another.      *)
(*   SpecFeedback  generateFeedback on any result, for every tier.         *)
(*   SpecProgress  a session history growing one session at a time, with   *)
(*             buildProgressSummary called on it at any length.            *)
(*   SpecAware  generateProgressAwareFeedback on any base feedback and any *)
(*             progress summary.                                           *)
(*   SpecPriority  calculateAdaptivePriority called again and again.       *)
(*   SpecPhases  detectShootingPhases on any keypoint-frame sequence.      *)
(*   SpecTerminating  Spec with every strategy invocation terminating.     *)
(***************************************************************************)
EXTENDS Integers, Sequences, FiniteSets, TLC

VARIABLES
    config,         \* Spec: the ProcessingConfig argument; SpecTier: the app's config
    pc,             \* position of the routeVideoAnalysis call
    currentTier,    \* let currentTier (AdaptiveProcessingRouter.ts:101)
    fallbackUsed,   \* let fallbackUsed (AdaptiveProcessingRouter.ts:102)
    fallbackTier,   \* const fallbackTier (AdaptiveProcessingRouter.ts:133)
    calls,          \* history of the strategy invocations made by the call
    result,         \* the ProcessingResult returned, or NoResult
    raised,         \* the error propagated to the caller, or NoError
    capabilities,   \* SpecTier, SpecConfig: DeviceCapabilities of the device
    connectivity,   \* SpecTier: the ConnectivityStatus argument
    userConsent,    \* SpecTier, SpecConfig: the user's consent
    selected,       \* SpecTier: value returned by selectProcessingTier
    updated,        \* SpecConfig: last call of updateConfigForConnectivity
    chain           \* SpecTier: tiers visited by repeated getFallbackTier

routerVars == <<pc, currentTier, fallbackUsed, fallbackTier, calls, result, raised>>

tierVars == <<capabilities, connectivity, userConsent, selected, updated, chain>>

VARIABLES
    dbOpen,         \* SpecCache: DatabaseManager.db is not null
    table,          \* SpecCache: the rows of the device_capabilities table
    now,            \* SpecCache: Date.now(), in days
    platformOS,     \* SpecCache: Platform.OS of the device
    call,           \* SpecCache: the detectDeviceCapabilities calls in progress
    lastWrite       \* SpecCache: the row of the last INSERT OR REPLACE that executed

cacheVars == <<dbOpen, table, now, platformOS, call, lastWrite>>

VARIABLES
    strategy,       \* SpecPipeline: the analysisFunction handed to routeVideoAnalysis
    inv             \* SpecPipeline: the strategy invocation in progress

pipelineVars == <<strategy, inv>>

VARIABLES
    analysis,       \* SpecAnalysis, SpecFeedback: the last analysis made, input and result
    feedback        \* SpecFeedback: the last generateFeedback call, or NoFeedback

analysisVars == <<analysis, feedback>>

VARIABLES
    sessions,       \* SpecProgress: the user's session history, oldest first
    summary,        \* SpecProgress, SpecAware: the UserProgressSummary, or NoSummary
    currentFeedback,\* SpecAware: the SessionFeedback handed to generateProgressAwareFeedback
    enhanced,       \* SpecAware: the SessionFeedback it returned, or NoFeedback
    priorityCall    \* SpecPriority: the last calculateAdaptivePriority call

progressVars == <<sessions, summary, currentFeedback, enhanced, priorityCall>>

VARIABLES
    frames,         \* SpecPhases: the keypoint frames of the video
    phases          \* SpecPhases: the ShootingPhases returned, or NoPhases

phaseVars == <<frames, phases>>

\* The variables of the parts that follow the router.
restVars == <<cacheVars, pipelineVars, analysisVars, progressVars, phaseVars>>

\* The variables outside the strategies.
offPipelineVars == <<tierVars, cacheVars, analysisVars, progressVars, phaseVars>>

\* The variables outside the analysis engines and the feedback generator.
offAnalysisVars == <<config, routerVars, tierVars, cacheVars, pipelineVars,
                     progressVars, phaseVars>>

\* The variables outside the adaptive recommendation system.
offProgressVars == <<config, routerVars, tierVars, cacheVars, pipelineVars,
                     analysisVars, phaseVars>>

\* The variables outside the shooting phase detection.
offPhaseVars == <<config, routerVars, tierVars, cacheVars, pipelineVars,
                  analysisVars, progressVars>>

\* The variables of the router part.
part1Vars == <<config, routerVars, tierVars>>

\* The variables outside the capability cache.
offCacheVars == <<part1Vars, pipelineVars, analysisVars, progressVars, phaseVars>>

vars == <<config, pc, currentTier, fallbackUsed, fallbackTier, calls, result,
          raised, capabilities, connectivity, userConsent, selected, updated,
          chain, dbOpen, table, now, platformOS, call, lastWrite,
          strategy, inv, analysis, feedback, sessions, summary,
          currentFeedback, enhanced, priorityCall, frames, phases>>

----------------------------------------------------------------------------
(* Types (src/src/types/models.ts, AdaptiveProcessingRouter.ts:13-27)      *)

\* export type AnalysisTier
AnalysisTier == {"basic", "lightweight_ml", "full_ml", "cloud"}

\* export type DeviceTier
DeviceTier == {"low", "mid", "high"}

\* null, the "no fallback" value of getFallbackTier
NoTier == "null"

NoResult == [none |-> TRUE]

NoError == [none |-> TRUE]

NoConfig == [none |-> TRUE]

\* Longest walk of the fallback chain the model follows (tiers visited).
MaxChain == 5

\* Number of distinct values a strategy invocation can return or throw.
NumValues == 2

Values == 1..NumValues

\* RAM sizes (MB), core counts and benchmark scores of the sample devices:
\* one value below and one above every threshold of classifyDeviceTier.
RAMValues == {2048, 8192}

CoreValues == {2, 8}

BenchmarkValues == {30, 95}

\* interface DeviceCapabilities
DeviceCapabilities ==
    [tier : DeviceTier, availableRAM : RAMValues, cpuCores : CoreValues,
     hasGPU : BOOLEAN, mlFrameworkSupported : BOOLEAN,
     benchmarkScore : BenchmarkValues]

\* interface ConnectivityStatus
ConnectivityStatus ==
    [isConnected : BOOLEAN, connectionType : {"wifi", "cellular", "none"},
     isMetered : BOOLEAN]

\* userConsent: { cloudProcessing: boolean; dataSharing: boolean }
UserConsent == [cloudProcessing : BOOLEAN, dataSharing : BOOLEAN]

\* interface ProcessingConfig: any value of the type, as routeVideoAnalysis
\* is exported and takes the config from its caller.
ProcessingConfig ==
    [selectedTier : AnalysisTier, deviceCapabilities : DeviceCapabilities,
     hasConnectivity : BOOLEAN, userConsent : UserConsent]

\* The device capability cache is not part of the specification.
CacheUnused ==
    /\ dbOpen = FALSE
    /\ table = {}
    /\ now = 0
    /\ platformOS = "android"
    /\ call = <<>>
    /\ lastWrite = [none |-> TRUE]

\* no strategy invocation has been made
NoInvocation == [forCall |-> 0]

\* The strategies are not part of the specification.
PipelineUnused ==
    /\ strategy = "none"
    /\ inv = NoInvocation

\* no analysis has been made
NoAnalysis == [none |-> TRUE]

\* generateFeedback has not been called
NoFeedback == [none |-> TRUE]

\* The analysis engines and the feedback generator are not part of the specification.
AnalysisUnused ==
    /\ analysis = NoAnalysis
    /\ feedback = NoFeedback

\* buildProgressSummary has not been called
NoSummary == [none |-> TRUE]

\* calculateAdaptivePriority has not been called
NoPriorityCall == [none |-> TRUE]

\* The adaptive recommendation system is not part of the specification.
ProgressUnused ==
    /\ sessions = <<>>
    /\ summary = NoSummary
    /\ currentFeedback = NoFeedback
    /\ enhanced = NoFeedback
    /\ priorityCall = NoPriorityCall

\* detectShootingPhases has not been called
NoPhases == [none |-> TRUE]

\* The shooting phase detection is not part of the specification.
PhasesUnused ==
    /\ frames = <<>>
    /\ phases = NoPhases

\* The parts that follow the router are not part of the specification.
RestUnused ==
    CacheUnused /\ PipelineUnused /\ AnalysisUnused /\ ProgressUnused /\ PhasesUnused

----------------------------------------------------------------------------
(* Pure functions of the router                                            *)

\* Faulty variant of selectProcessingTier: the cloud rule forgets isMetered.
selectProcessingTier_IgnoresMetered(caps, conn, consent) ==
    IF conn.isConnected /\ consent.cloudProcessing /\ conn.connectionType = "wifi"
    THEN "cloud"
    ELSE IF caps.tier = "high" /\ caps.mlFrameworkSupported
    THEN "full_ml"
    ELSE IF caps.tier = "mid" /\ caps.mlFrameworkSupported
    THEN "lightweight_ml"
    ELSE "basic"

\* Faulty variant of selectProcessingTier: the cloud rule forgets the consent.
selectProcessingTier_IgnoresConsent(caps, conn, consent) ==
    IF conn.isConnected /\ conn.connectionType = "wifi" /\ ~conn.isMetered
    THEN "cloud"
    ELSE IF caps.tier = "high" /\ caps.mlFrameworkSupported
    THEN "full_ml"
    ELSE IF caps.tier = "mid" /\ caps.mlFrameworkSupported
    THEN "lightweight_ml"
    ELSE "basic"

\* selectProcessingTier(capabilities, connectivity, userConsent)
selectProcessingTier(caps, conn, consent) ==
    IF conn.isConnected /\ consent.cloudProcessing
       /\ conn.connectionType = "wifi" /\ ~conn.isMetered
    THEN "cloud"
    ELSE IF caps.tier = "high" /\ caps.mlFrameworkSupported
    THEN "full_ml"
    ELSE IF caps.tier = "mid" /\ caps.mlFrameworkSupported
    THEN "lightweight_ml"
    ELSE "basic"

\* Faulty variant of getFallbackTier: lightweight_ml has no fallback.
getFallbackTier_SkipsBasic(tier) ==
    CASE tier = "cloud" -> "full_ml"
      [] tier = "full_ml" -> "lightweight_ml"
      [] tier = "lightweight_ml" -> NoTier
      [] tier = "basic" -> NoTier

\* Faulty variant of getFallbackTier: basic falls back to lightweight_ml.
getFallbackTier_Cycles(tier) ==
    CASE tier = "cloud" -> "full_ml"
      [] tier = "full_ml" -> "lightweight_ml"
      [] tier = "lightweight_ml" -> "basic"
      [] tier = "basic" -> "lightweight_ml"

\* getFallbackTier(currentTier): the fallbackChain record
getFallbackTier(tier) ==
    CASE tier = "cloud" -> "full_ml"
      [] tier = "full_ml" -> "lightweight_ml"
      [] tier = "lightweight_ml" -> "basic"
      [] tier = "basic" -> NoTier

\* validateProcessingTier(tier, config)
validateProcessingTier(tier, cfg) ==
    IF tier = "cloud"
    THEN cfg.hasConnectivity /\ cfg.userConsent.cloudProcessing
    ELSE IF tier = "full_ml" \/ tier = "lightweight_ml"
    THEN cfg.deviceCapabilities.mlFrameworkSupported
    ELSE TRUE

\* getRecommendedTier(config)
getRecommendedTier(cfg) ==
    LET conn == [isConnected |-> cfg.hasConnectivity,
                 connectionType |-> IF cfg.hasConnectivity THEN "wifi" ELSE "none",
                 isMetered |-> FALSE]
    IN selectProcessingTier(cfg.deviceCapabilities, conn, cfg.userConsent)

\* updateConfigForConnectivity(config, connectivity): { ...config, selectedTier, hasConnectivity }
updateConfigForConnectivity(cfg, conn) ==
    [cfg EXCEPT
        !.selectedTier = selectProcessingTier(cfg.deviceCapabilities, conn, cfg.userConsent),
        !.hasConnectivity = conn.isConnected]

----------------------------------------------------------------------------
(* routeVideoAnalysis (AdaptiveProcessingRouter.ts:95-171)                 *)
(* processingTime is only measured, logged and copied into the result; it  *)
(* decides no branch and is left out of the result record.                 *)

\* One strategy invocation: analysisFunction(videoPath, tier) resolved with
\* data `value` (ok) or rejected with error `value` (~ok).
Invocation(tier, ok, value) == [tier |-> tier, ok |-> ok, value |-> value]

\* return { data, tier, processingTime, fallbackUsed }
ProcessingResult(data, tier, fb) == [data |-> data, tier |-> tier, fallbackUsed |-> fb]

\* throw new Error(`Video analysis failed: ${error}`): a new error that
\* carries the error thrown by invocation number `cause`.
WrappedError(cause, value) == [cause |-> cause, value |-> value, wrapped |-> TRUE]

\* an error of the strategy leaving routeVideoAnalysis as it was thrown
RethrownError(cause, value) == [cause |-> cause, value |-> value, wrapped |-> FALSE]

\* Faulty variant of RouteStart: the recomputed tier is not flagged as a fallback.
RouteStart_KeepsFlag ==
    /\ pc = "idle"
    /\ currentTier' = IF ~validateProcessingTier(config.selectedTier, config)
                      THEN getRecommendedTier(config)
                      ELSE config.selectedTier
    /\ fallbackUsed' = FALSE
    /\ pc' = "primary"
    /\ UNCHANGED <<config, fallbackTier, calls, result, raised>>
    /\ UNCHANGED <<tierVars, restVars>>

\* lines 100-109: validate the configured tier, recompute it when illegal
RouteStart ==
    /\ pc = "idle"
    /\ IF ~validateProcessingTier(config.selectedTier, config)
       THEN /\ currentTier' = getRecommendedTier(config)
            /\ fallbackUsed' = TRUE
       ELSE /\ currentTier' = config.selectedTier
            /\ fallbackUsed' = FALSE
    /\ pc' = "primary"
    /\ UNCHANGED <<config, fallbackTier, calls, result, raised>>
    /\ UNCHANGED <<tierVars, restVars>>

\* lines 112-128: the primary invocation resolves
PrimarySucceeds(data) ==
    /\ pc = "primary"
    /\ calls' = Append(calls, Invocation(currentTier, TRUE, data))
    /\ result' = ProcessingResult(data, currentTier, fallbackUsed)
    /\ pc' = "returned"
    /\ UNCHANGED <<config, currentTier, fallbackUsed, fallbackTier, raised>>
    /\ UNCHANGED <<tierVars, restVars>>

\* Faulty variant of PrimaryFails: the retry is made at the tier that failed.
PrimaryFails_RetriesSameTier(error) ==
    /\ pc = "primary"
    /\ calls' = Append(calls, Invocation(currentTier, FALSE, error))
    /\ fallbackTier' = currentTier
    /\ fallbackUsed' = TRUE
    /\ pc' = "fallback"
    /\ raised' = raised
    /\ UNCHANGED <<config, currentTier, result>>
    /\ UNCHANGED <<tierVars, restVars>>

\* Faulty variant of PrimaryFails: fallbackUsed is not set before the retry.
PrimaryFails_KeepsFlag(error) ==
    /\ pc = "primary"
    /\ calls' = Append(calls, Invocation(currentTier, FALSE, error))
    /\ fallbackTier' = getFallbackTier(currentTier)
    /\ fallbackUsed' = fallbackUsed
    /\ IF fallbackTier' # NoTier
       THEN /\ pc' = "fallback"
            /\ raised' = raised
       ELSE /\ pc' = "thrown"
            /\ raised' = WrappedError(1, error)
    /\ UNCHANGED <<config, currentTier, result>>
    /\ UNCHANGED <<tierVars, restVars>>

\* lines 129-137 and 168-169: the primary invocation rejects
PrimaryFails(error) ==
    /\ pc = "primary"
    /\ calls' = Append(calls, Invocation(currentTier, FALSE, error))
    /\ fallbackTier' = getFallbackTier(currentTier)
    /\ IF fallbackTier' # NoTier
       THEN /\ fallbackUsed' = TRUE
            /\ pc' = "fallback"
            /\ raised' = raised
       ELSE /\ fallbackUsed' = fallbackUsed
            /\ pc' = "thrown"
            /\ raised' = WrappedError(1, error)
    /\ UNCHANGED <<config, currentTier, result>>
    /\ UNCHANGED <<tierVars, restVars>>

\* Faulty variant of FallbackSucceeds: the result reports currentTier.
FallbackSucceeds_ReportsRequested(data) ==
    /\ pc = "fallback"
    /\ calls' = Append(calls, Invocation(fallbackTier, TRUE, data))
    /\ result' = ProcessingResult(data, currentTier, fallbackUsed)
    /\ pc' = "returned"
    /\ UNCHANGED <<config, currentTier, fallbackUsed, fallbackTier, raised>>
    /\ UNCHANGED <<tierVars, restVars>>

\* lines 139-148: the invocation at fallbackTier resolves
FallbackSucceeds(data) ==
    /\ pc = "fallback"
    /\ calls' = Append(calls, Invocation(fallbackTier, TRUE, data))
    /\ result' = ProcessingResult(data, fallbackTier, fallbackUsed)
    /\ pc' = "returned"
    /\ UNCHANGED <<config, currentTier, fallbackUsed, fallbackTier, raised>>
    /\ UNCHANGED <<tierVars, restVars>>

\* Faulty variant of FallbackFails: no last resort at basic.
FallbackFails_NoLastResort(fallbackError) ==
    /\ pc = "fallback"
    /\ calls' = Append(calls, Invocation(fallbackTier, FALSE, fallbackError))
    /\ pc' = "thrown"
    /\ raised' = WrappedError(1, calls[1].value)
    /\ UNCHANGED <<config, currentTier, fallbackUsed, fallbackTier, result>>
    /\ UNCHANGED <<tierVars, restVars>>

\* lines 149-154 and 165-169: the invocation at fallbackTier rejects; when
\* fallbackTier is basic the error of the PRIMARY invocation is wrapped and thrown
FallbackFails(fallbackError) ==
    /\ pc = "fallback"
    /\ calls' = Append(calls, Invocation(fallbackTier, FALSE, fallbackError))
    /\ IF fallbackTier # "basic"
       THEN /\ pc' = "lastResort"
            /\ raised' = raised
       ELSE /\ pc' = "thrown"
            /\ raised' = WrappedError(1, calls[1].value)
    /\ UNCHANGED <<config, currentTier, fallbackUsed, fallbackTier, result>>
    /\ UNCHANGED <<tierVars, restVars>>

\* lines 155-163: the last-resort invocation at basic resolves
LastResortSucceeds(data) ==
    /\ pc = "lastResort"
    /\ calls' = Append(calls, Invocation("basic", TRUE, data))
    /\ result' = ProcessingResult(data, "basic", TRUE)
    /\ pc' = "returned"
    /\ UNCHANGED <<config, currentTier, fallbackUsed, fallbackTier, raised>>
    /\ UNCHANGED <<tierVars, restVars>>

\* line 155: the last-resort invocation rejects inside the catch block, with
\* no enclosing try: its error leaves routeVideoAnalysis unwrapped
LastResortFails(lastError) ==
    /\ pc = "lastResort"
    /\ calls' = Append(calls, Invocation("basic", FALSE, lastError))
    /\ raised' = RethrownError(Len(calls) + 1, lastError)
    /\ pc' = "thrown"
    /\ UNCHANGED <<config, currentTier, fallbackUsed, fallbackTier, result>>
    /\ UNCHANGED <<tierVars, restVars>>

\* The state before routeVideoAnalysis is called with any config.
Init ==
    /\ config \in ProcessingConfig
    /\ pc = "idle"
    /\ currentTier = NoTier
    /\ fallbackUsed = FALSE
    /\ fallbackTier = NoTier
    /\ calls = <<>>
    /\ result = NoResult
    /\ raised = NoError
    /\ capabilities = NoConfig
    /\ connectivity = NoConfig
    /\ userConsent = NoConfig
    /\ selected = NoTier
    /\ updated = NoConfig
    /\ chain = <<>>
    /\ RestUnused

Next ==
    \/ RouteStart
    \/ \E v \in Values : PrimarySucceeds(v)
    \/ \E v \in Values : PrimaryFails(v)
    \/ \E v \in Values : FallbackSucceeds(v)
    \/ \E v \in Values : FallbackFails(v)
    \/ \E v \in Values : LastResortSucceeds(v)
    \/ \E v \in Values : LastResortFails(v)

Spec == Init /\ [][Next]_vars

----------------------------------------------------------------------------
(* SpecTier: selectProcessingTier and getFallbackTier on all inputs        *)

\* const tier = selectProcessingTier(capabilities, connectivity, userConsent)
SelectProcessingTier ==
    /\ selected = NoTier
    /\ selected' = selectProcessingTier(capabilities, connectivity, userConsent)
    /\ UNCHANGED <<config, capabilities, connectivity, userConsent, updated, chain>>
    /\ UNCHANGED <<routerVars, restVars>>

\* the walk of the fallback chain starts at the selected tier
StartWalk ==
    /\ selected # NoTier
    /\ chain = <<>>
    /\ chain' = <<selected>>
    /\ UNCHANGED <<config, capabilities, connectivity, userConsent, selected, updated>>
    /\ UNCHANGED <<routerVars, restVars>>

\* tier = getFallbackTier(tier), as long as it returns a tier
FallbackStep ==
    /\ chain # <<>>
    /\ Len(chain) < MaxChain
    /\ getFallbackTier(chain[Len(chain)]) # NoTier
    /\ chain' = Append(chain, getFallbackTier(chain[Len(chain)]))
    /\ UNCHANGED <<config, capabilities, connectivity, userConsent, selected, updated>>
    /\ UNCHANGED <<routerVars, restVars>>

InitTier ==
    /\ capabilities \in DeviceCapabilities
    /\ connectivity \in ConnectivityStatus
    /\ userConsent \in UserConsent
    /\ selected = NoTier
    /\ chain = <<>>
    /\ config = NoConfig
    /\ updated = NoConfig
    /\ pc = "idle"
    /\ currentTier = NoTier
    /\ fallbackUsed = FALSE
    /\ fallbackTier = NoTier
    /\ calls = <<>>
    /\ result = NoResult
    /\ raised = NoError
    /\ RestUnused

NextTier ==
    \/ SelectProcessingTier
    \/ StartWalk
    \/ FallbackStep

SpecTier == InitTier /\ [][NextTier]_vars

----------------------------------------------------------------------------
(* SpecConfig: the ProcessingConfig built and recomputed by the app        *)

\* checkConnectivity(): the try block returns this literal and cannot throw,
\* so the catch block's value is never returned
checkConnectivity == [isConnected |-> TRUE, connectionType |-> "wifi", isMetered |-> FALSE]

\* initializeProcessingConfig(userConsent): detectDeviceCapabilities() yields
\* the device's capabilities, checkConnectivity() the connectivity
InitializeProcessingConfig ==
    /\ config' = [selectedTier |-> selectProcessingTier(capabilities, checkConnectivity, userConsent),
                  deviceCapabilities |-> capabilities,
                  hasConnectivity |-> checkConnectivity.isConnected,
                  userConsent |-> userConsent]
    /\ UNCHANGED <<capabilities, connectivity, userConsent, selected, updated, chain>>
    /\ UNCHANGED <<routerVars, restVars>>

\* Faulty variant of UpdateConfigForConnectivity: the input object is assigned.
UpdateConfigForConnectivity_InPlace(conn) ==
    /\ config # NoConfig
    /\ updated' = [input |-> config, connectivity |-> conn,
                   output |-> updateConfigForConnectivity(config, conn)]
    /\ config' = updateConfigForConnectivity(config, conn)
    /\ UNCHANGED <<capabilities, connectivity, userConsent, selected, chain>>
    /\ UNCHANGED <<routerVars, restVars>>

\* updated = updateConfigForConnectivity(config, conn): the call with its
\* argument values and the object it returns; config itself is not assigned
UpdateConfigForConnectivity(conn) ==
    /\ config # NoConfig
    /\ updated' = [input |-> config, connectivity |-> conn,
                   output |-> updateConfigForConnectivity(config, conn)]
    /\ UNCHANGED <<config, capabilities, connectivity, userConsent, selected, chain>>
    /\ UNCHANGED <<routerVars, restVars>>

\* config = updateConfigForConnectivity(config, ...): the caller keeps the
\* returned config (src/unnamed/part_008:138,149)
AdoptUpdatedConfig ==
    /\ updated # NoConfig
    /\ config # updated.output
    /\ config' = updated.output
    /\ UNCHANGED <<capabilities, connectivity, userConsent, selected, updated, chain>>
    /\ UNCHANGED <<routerVars, restVars>>

InitConfig ==
    /\ capabilities \in DeviceCapabilities
    /\ userConsent \in UserConsent
    /\ connectivity = NoConfig
    /\ selected = NoTier
    /\ chain = <<>>
    /\ config = NoConfig
    /\ updated = NoConfig
    /\ pc = "idle"
    /\ currentTier = NoTier
    /\ fallbackUsed = FALSE
    /\ fallbackTier = NoTier
    /\ calls = <<>>
    /\ result = NoResult
    /\ raised = NoError
    /\ RestUnused

NextConfig ==
    \/ InitializeProcessingConfig
    \/ \E conn \in ConnectivityStatus : UpdateConfigForConnectivity(conn)
    \/ AdoptUpdatedConfig

SpecConfig == InitConfig /\ [][NextConfig]_vars

----------------------------------------------------------------------------
(* Properties of routeVideoAnalysis, checked under Spec                    *)

\* The call has ended: a result was returned or an error was raised.
Finished == pc \in {"returned", "thrown"}

\* The tiers of the strategy invocations made so far, in order.
TiersTried == [i \in 1..Len(calls) |-> calls[i].tier]

\* C1: whenever routeVideoAnalysis returns a result, result.tier is the tier
\* of the last strategy invocation it made, that invocation succeeded and
\* result.data is the value it returned, for every config (valid or not) and
\* every pattern of strategy failures.
C1_ResultTierIsProducer ==
    pc = "returned" =>
        /\ Len(calls) >= 1
        /\ calls[Len(calls)].ok
        /\ result.tier = calls[Len(calls)].tier
        /\ result.data = calls[Len(calls)].value
        /\ \A i \in 1..(Len(calls) - 1) : ~calls[i].ok

\* C1 witness: an invalid configured tier was replaced, two invocations
\* failed, and the result reports basic, not the configured tier.
C1_Witness ==
    /\ pc = "returned"
    /\ ~validateProcessingTier(config.selectedTier, config)
    /\ Len(calls) = 3
    /\ result.tier = "basic"
    /\ result.tier # config.selectedTier

\* C2: for a valid configured tier T with fallback F, a strategy failing at T
\* and succeeding at F is invoked exactly twice, at T then at F, and the
\* result has tier = F, fallbackUsed = TRUE and the data returned at F.
C2_SingleFallback ==
    LET T == config.selectedTier
        F == getFallbackTier(T)
    IN  ( /\ Finished
          /\ validateProcessingTier(T, config)
          /\ F # NoTier
          /\ \A i \in 1..Len(calls) : calls[i].tier = T => ~calls[i].ok
          /\ \A i \in 1..Len(calls) : calls[i].tier = F => calls[i].ok )
        => /\ TiersTried = <<T, F>>
           /\ pc = "returned"
           /\ result = ProcessingResult(calls[2].value, F, TRUE)

\* C2 witness: lightweight_ml fails, basic succeeds.
C2_Witness ==
    /\ pc = "returned"
    /\ config.selectedTier = "lightweight_ml"
    /\ validateProcessingTier("lightweight_ml", config)
    /\ TiersTried = <<"lightweight_ml", "basic">>
    /\ ~calls[1].ok
    /\ result.tier = "basic"
    /\ result.fallbackUsed

\* C3 as stated: every failed invocation at a tier with a fallback is
\* followed by an invocation at that fallback, the router fails only after a
\* failed attempt at a tier with no fallback, and from cloud with every
\* attempt failing the attempts are cloud, full_ml, lightweight_ml, basic.
C3_Original_WalksWholeChain ==
    /\ \A i \in 1..Len(calls) :
          (~calls[i].ok /\ getFallbackTier(calls[i].tier) # NoTier) =>
              IF i < Len(calls)
              THEN calls[i + 1].tier = getFallbackTier(calls[i].tier)
              ELSE ~Finished
    /\ pc = "thrown" =>
          /\ ~calls[Len(calls)].ok
          /\ getFallbackTier(calls[Len(calls)].tier) = NoTier
    /\ (pc = "thrown" /\ calls[1].tier = "cloud") =>
          TiersTried = <<"cloud", "full_ml", "lightweight_ml", "basic">>

\* C3 amended: when the first invocation, at tier T, fails and T has a
\* fallback, the second invocation is at getFallbackTier(T); when that one
\* fails too and was not at basic, the third and last invocation is at basic
\* directly; the router fails only after a failed attempt at basic, the tier
\* with no fallback; from cloud with every attempt failing the attempts are
\* cloud, full_ml, basic.
C3_FallbackThenBasic ==
    /\ (Len(calls) >= 1 /\ ~calls[1].ok /\ getFallbackTier(calls[1].tier) # NoTier) =>
          IF Len(calls) = 1
          THEN pc = "fallback"
          ELSE calls[2].tier = getFallbackTier(calls[1].tier)
    /\ (Len(calls) >= 2 /\ ~calls[2].ok /\ calls[2].tier # "basic") =>
          IF Len(calls) = 2
          THEN pc = "lastResort"
          ELSE calls[3].tier = "basic"
    /\ Len(calls) <= 3
    /\ \A i \in 1..(Len(calls) - 1) : ~calls[i].ok
    /\ pc = "thrown" =>
          /\ ~calls[Len(calls)].ok
          /\ calls[Len(calls)].tier = "basic"
          /\ getFallbackTier(calls[Len(calls)].tier) = NoTier
    /\ (pc = "thrown" /\ calls[1].tier = "cloud") =>
          TiersTried = <<"cloud", "full_ml", "basic">>

\* C3 witness: the router failed after starting at cloud.
C3_Witness ==
    /\ pc = "thrown"
    /\ calls[1].tier = "cloud"
    /\ Len(calls) = 3

\* C4 as stated: when every attempted tier fails, the failure propagated is
\* the failure of the last strategy invocation and no result is returned.
C4_LastFailurePropagated ==
    pc = "thrown" =>
        /\ result = NoResult
        /\ raised # NoError
        /\ raised.cause = Len(calls)
        /\ raised.value = calls[Len(calls)].value

\* C5: routeVideoAnalysis raises only if it invoked the strategy at basic and
\* that invocation failed; so if every invocation at basic succeeds, a
\* finished call has returned a result.
C5_RaisesOnlyAfterBasicFailed ==
    /\ pc = "thrown" =>
          \E i \in 1..Len(calls) : calls[i].tier = "basic" /\ ~calls[i].ok
    /\ (Finished /\ \A i \in 1..Len(calls) : calls[i].tier = "basic" => calls[i].ok) =>
          /\ pc = "returned"
          /\ result # NoResult
          /\ raised = NoError

\* C5 witness: the error raised after cloud, full_ml and basic all failed.
C5_Witness ==
    /\ pc = "thrown"
    /\ Len(calls) = 3
    /\ calls[3].tier = "basic"
    /\ ~calls[3].ok
    /\ raised # NoError

\* C6: a configured tier that fails validateProcessingTier is replaced by
\* getRecommendedTier(config) for the first invocation, the recomputed tier
\* passes validateProcessingTier for the same config, and the result has
\* fallbackUsed = TRUE even when the first invocation succeeds; a valid
\* configured tier is the tier of the first invocation.
C6_InvalidTierRecomputed ==
    Len(calls) >= 1 =>
        IF validateProcessingTier(config.selectedTier, config)
        THEN calls[1].tier = config.selectedTier
        ELSE /\ calls[1].tier = getRecommendedTier(config)
             /\ calls[1].tier # config.selectedTier
             /\ validateProcessingTier(calls[1].tier, config)
             /\ pc = "returned" => result.fallbackUsed

\* C6 witness: cloud was configured without connectivity, the recomputed
\* tier succeeded at the first invocation.
C6_Witness ==
    /\ pc = "returned"
    /\ config.selectedTier = "cloud"
    /\ ~validateProcessingTier("cloud", config)
    /\ Len(calls) = 1
    /\ calls[1].ok
    /\ result.tier = getRecommendedTier(config)
    /\ result.fallbackUsed

----------------------------------------------------------------------------
(* Properties of the tier functions, checked under SpecTier and SpecConfig *)

\* C7: for every combination of capabilities, connectivity and consent,
\* selectProcessingTier returns the tier of the first matching rule (cloud,
\* then full_ml, then lightweight_ml, else basic), and the result does not
\* change with dataSharing, RAM, cores, GPU or benchmark score.
C7_SelectionPrecedence ==
    selected # NoTier =>
        LET cloudRule == /\ connectivity.isConnected
                         /\ userConsent.cloudProcessing
                         /\ connectivity.connectionType = "wifi"
                         /\ ~connectivity.isMetered
            fullRule == capabilities.tier = "high" /\ capabilities.mlFrameworkSupported
            lightRule == capabilities.tier = "mid" /\ capabilities.mlFrameworkSupported
        IN  /\ selected \in AnalysisTier
            /\ selected = "cloud" <=> cloudRule
            /\ selected = "full_ml" <=> (~cloudRule /\ fullRule)
            /\ selected = "lightweight_ml" <=> (~cloudRule /\ ~fullRule /\ lightRule)
            /\ selected = "basic" <=> (~cloudRule /\ ~fullRule /\ ~lightRule)
            /\ \A caps2 \in DeviceCapabilities, consent2 \in UserConsent :
                  ( /\ caps2.tier = capabilities.tier
                    /\ caps2.mlFrameworkSupported = capabilities.mlFrameworkSupported
                    /\ consent2.cloudProcessing = userConsent.cloudProcessing )
                  => selectProcessingTier(caps2, connectivity, consent2) = selected

\* C7 witness: a consenting user on metered wifi with a high-end device gets
\* full_ml, the second rule, not cloud.
C7_Witness ==
    /\ selected = "full_ml"
    /\ connectivity.isConnected
    /\ connectivity.connectionType = "wifi"
    /\ connectivity.isMetered
    /\ userConsent.cloudProcessing

\* C8: a selected tier of cloud implies connectivity and cloud consent (on
\* unmetered wifi), a selected ML tier implies mlFrameworkSupported, and every
\* config built by initializeProcessingConfig or updateConfigForConnectivity
\* has a selectedTier that passes validateProcessingTier.
C8_BuiltConfigsAreValid ==
    /\ config # NoConfig =>
          /\ validateProcessingTier(config.selectedTier, config)
          /\ config.selectedTier = "cloud" =>
                config.hasConnectivity /\ userConsent.cloudProcessing
          /\ config.selectedTier \in {"full_ml", "lightweight_ml"} =>
                capabilities.mlFrameworkSupported
    /\ updated # NoConfig =>
          /\ validateProcessingTier(updated.output.selectedTier, updated.output)
          /\ updated.output.selectedTier = "cloud" =>
                /\ updated.connectivity.isConnected
                /\ updated.input.userConsent.cloudProcessing
                /\ updated.connectivity.connectionType = "wifi"
                /\ ~updated.connectivity.isMetered
          /\ updated.output.selectedTier \in {"full_ml", "lightweight_ml"} =>
                updated.input.deviceCapabilities.mlFrameworkSupported

\* C8 witness: an offline full_ml config was updated to cloud when unmetered
\* wifi came back, and the app adopted it.
C8_Witness ==
    /\ updated # NoConfig
    /\ updated.input.selectedTier = "full_ml"
    /\ ~updated.input.hasConnectivity
    /\ updated.output.selectedTier = "cloud"
    /\ config = updated.output

\* C9: each step of the walk follows cloud -> full_ml -> lightweight_ml ->
\* basic, the walk never revisits a tier, takes at most 3 steps, and stops
\* exactly at basic, the only tier with no fallback.
C9_FallbackChainClosure ==
    chain # <<>> =>
        /\ \A i \in 1..Len(chain) : chain[i] \in AnalysisTier
        /\ \A i \in 1..(Len(chain) - 1) :
              \/ chain[i] = "cloud" /\ chain[i + 1] = "full_ml"
              \/ chain[i] = "full_ml" /\ chain[i + 1] = "lightweight_ml"
              \/ chain[i] = "lightweight_ml" /\ chain[i + 1] = "basic"
        /\ \A i, j \in 1..Len(chain) : i < j => chain[i] # chain[j]
        /\ Len(chain) - 1 <= 3
        /\ (getFallbackTier(chain[Len(chain)]) = NoTier) <=> (chain[Len(chain)] = "basic")

\* C9 witness: the walk from cloud reached basic after 3 steps.
C9_Witness ==
    /\ chain = <<"cloud", "full_ml", "lightweight_ml", "basic">>
    /\ getFallbackTier(chain[Len(chain)]) = NoTier

\* The value returned by the last updateConfigForConnectivity(input, c):
\* selectedTier and hasConnectivity recomputed from c, the other fields
\* those of the input, whatever the input's selectedTier was, and a fixed
\* point of a second update with the same c.
C10_UpdateResult ==
    updated # NoConfig =>
        LET in == updated.input
            c == updated.connectivity
            out == updated.output
        IN  /\ out.selectedTier = selectProcessingTier(in.deviceCapabilities, c, in.userConsent)
            /\ out.hasConnectivity = c.isConnected
            /\ out.deviceCapabilities = in.deviceCapabilities
            /\ out.userConsent = in.userConsent
            /\ DOMAIN out = DOMAIN in
            /\ \A t \in AnalysisTier :
                  updateConfigForConnectivity([in EXCEPT !.selectedTier = t], c) = out
            /\ updateConfigForConnectivity(out, c) = out

\* C10: updateConfigForConnectivity(config, c) returns a new config with
\* selectedTier = selectProcessingTier(deviceCapabilities, c, userConsent)
\* and hasConnectivity = c.isConnected, the other fields unchanged; the
\* input config is not modified, the previous selectedTier does not matter
\* and a second update with the same c returns the same config.
C10_UpdateIsPure ==
    /\ []C10_UpdateResult
    /\ [][updated' # updated => (config' = config /\ updated'.input = config)]_vars

\* C10 witness: an update applied to a config that an earlier update
\* produced, changing nothing, while the app still holds the cloud config.
C10_Witness ==
    /\ updated # NoConfig
    /\ updated.connectivity.connectionType = "cellular"
    /\ updated.input = updated.output
    /\ updated.input.selectedTier = "lightweight_ml"
    /\ config = updated.input

----------------------------------------------------------------------------
(* Part 2: the device capability detector and its cache                    *)
(*   src/unnamed/part_004 (DeviceCapabilityDetector),                      *)
(*   src/src/database/DatabaseManager.ts, src/src/database/schema.ts       *)
(* Time is counted in days: Date.now() is `now`, 7 * 24 * 60 * 60 * 1000   *)
(* ms is SevenDays.                                                        *)

\* null: no capabilities (loadCachedCapabilities found none)
NoCapabilities == [none |-> TRUE]

\* no row of device_capabilities
NoRow == [none |-> TRUE]

\* const sevenDaysInMs = 7 * 24 * 60 * 60 * 1000, in days
SevenDays == 7

\* Last day the clock of SpecCache reaches.
MaxTime == 9

\* Last day the clock of SpecRace reaches.
MaxRaceTime == 1

\* Number of concurrent detectDeviceCapabilities calls in SpecRace.
NumCallers == 2

\* Platform.OS
PlatformOS == {"android", "ios", "web"}

\* Durations (ms) measured by runPerformanceBenchmark: one in each band.
Durations == {10, 100, 400}

\* getAvailableRAM(): the catch block is not reachable
getAvailableRAM(os) ==
    IF os = "android" THEN 4096
    ELSE IF os = "ios" THEN 4096
    ELSE 2048

\* getCPUCores()
getCPUCores(os) == IF os = "android" \/ os = "ios" THEN 4 ELSE 2

\* checkGPUAvailability()
checkGPUAvailability(os) == os = "android" \/ os = "ios"

\* checkTFLiteAvailability(): the placeholder returns true
checkTFLiteAvailability == TRUE

\* Math.round(n / d) for n >= 0, d > 0
RoundDiv(n, d) == (2 * n + d) \div (2 * d)

\* runPerformanceBenchmark(): the score for a measured duration
\*   duration < 50:  round(90 + min(10, (50 - duration) / 5))
\*   duration < 150: round(50 + ((150 - duration) / 100) * 40)
\*   else:           round(max(0, 50 - (duration - 150) / 10))
runPerformanceBenchmark(duration) ==
    IF duration < 50
    THEN 90 + (IF 50 - duration >= 50 THEN 10 ELSE RoundDiv(50 - duration, 5))
    ELSE IF duration < 150
    THEN 50 + RoundDiv((150 - duration) * 40, 100)
    ELSE IF duration - 150 >= 500 THEN 0
    ELSE (505 - (duration - 150)) \div 10

\* classifyDeviceTier(ram, cpuCores, benchmarkScore)
classifyDeviceTier(ram, cpuCores, benchmarkScore) ==
    IF ram >= 6144 /\ cpuCores >= 6 /\ benchmarkScore > 70 THEN "high"
    ELSE IF ram >= 3072 /\ cpuCores >= 4 /\ benchmarkScore > 40 THEN "mid"
    ELSE "low"

\* detectDeviceCapabilities, lines 26-41: the capabilities object
DetectedCapabilities(os, duration) ==
    [tier |-> classifyDeviceTier(getAvailableRAM(os), getCPUCores(os),
                                 runPerformanceBenchmark(duration)),
     availableRAM |-> getAvailableRAM(os),
     cpuCores |-> getCPUCores(os),
     hasGPU |-> checkGPUAvailability(os),
     mlFrameworkSupported |-> checkTFLiteAvailability,
     benchmarkScore |-> runPerformanceBenchmark(duration)]

\* cacheDeviceCapabilities: the VALUES (1, ?, ?, ?, ?, ?, ?, ?) of the statement
CacheRow(caps, time) ==
    [id |-> 1,
     tier |-> caps.tier,
     available_ram |-> caps.availableRAM,
     cpu_cores |-> caps.cpuCores,
     has_gpu |-> IF caps.hasGPU THEN 1 ELSE 0,
     ml_framework_supported |-> IF caps.mlFrameworkSupported THEN 1 ELSE 0,
     benchmark_score |-> caps.benchmarkScore,
     last_assessed |-> time]

\* Faulty variant of InsertOrReplace: a plain INSERT under a fresh id.
InsertOrReplace_Appends(rows, row) ==
    rows \cup {[row EXCEPT !.id = Cardinality(rows) + 1]}

\* INSERT OR REPLACE INTO device_capabilities: id is the PRIMARY KEY, the
\* row with the same id is deleted and the new row inserted, in one statement
InsertOrReplace(rows, row) == {r \in rows : r.id # row.id} \cup {row}

\* SELECT * FROM device_capabilities WHERE id = 1
SelectCacheRow(rows) == {r \in rows : r.id = 1}

\* Faulty variant of IsStale: a record of exactly 7 days is stale already.
IsStale_AtSevenDays(row, time) == time - row.last_assessed >= SevenDays

\* loadCachedCapabilities, lines 243-246: cacheAge > sevenDaysInMs
IsStale(row, time) == time - row.last_assessed > SevenDays

\* loadCachedCapabilities, lines 251-258: the object built from the row
RowCapabilities(row) ==
    [tier |-> row.tier,
     availableRAM |-> row.available_ram,
     cpuCores |-> row.cpu_cores,
     hasGPU |-> row.has_gpu = 1,
     mlFrameworkSupported |-> row.ml_framework_supported = 1,
     benchmarkScore |-> row.benchmark_score]

\* loadCachedCapabilities when the SELECT succeeded on `rows` at `time`
loadCachedCapabilities(rows, time) ==
    IF SelectCacheRow(rows) # {}
    THEN LET row == CHOOSE r \in SelectCacheRow(rows) : TRUE
         IN  IF IsStale(row, time) THEN NoCapabilities ELSE RowCapabilities(row)
    ELSE NoCapabilities

\* A detectDeviceCapabilities call that has not started.
\*   cached, capabilities, returned: the call's values of the same names
\*   read: "none" (no SELECT yet), "failed" (it threw) or "ok";
\*   readRows: the rows an "ok" SELECT observed, readAt: when
\*   wrote: outcome of the call's INSERT OR REPLACE, writtenRow: its row
\*   tableBefore: the table when the call started
IdleCall ==
    [pc |-> "idle", forceRefresh |-> FALSE, cached |-> NoCapabilities,
     capabilities |-> NoCapabilities, returned |-> NoCapabilities,
     read |-> "none", readRows |-> {}, readAt |-> 0, wrote |-> "none", writtenRow |-> NoRow,
     tableBefore |-> {}]

\* detectDeviceCapabilities(forceRefresh), line 17
StartDetect(p, forceRefresh) ==
    /\ call[p].pc = "idle"
    /\ call' = [call EXCEPT ![p] =
                  [IdleCall EXCEPT !.pc = IF forceRefresh THEN "detect" ELSE "load",
                                   !.forceRefresh = forceRefresh,
                                   !.tableBefore = table]]
    /\ UNCHANGED <<dbOpen, table, now, platformOS, lastWrite>>
    /\ UNCHANGED offCacheVars

\* lines 18-23 with loadCachedCapabilities, lines 233-261: the SELECT succeeds
LoadCached(p) ==
    /\ call[p].pc = "load"
    /\ dbOpen
    /\ LET cached == loadCachedCapabilities(table, now)
       IN  call' = [call EXCEPT ![p].cached = cached,
                                ![p].read = "ok",
                                ![p].readRows = SelectCacheRow(table),
                                ![p].readAt = now,
                                ![p].returned = cached,
                                ![p].pc = IF cached # NoCapabilities THEN "done" ELSE "detect"]
    /\ UNCHANGED <<dbOpen, table, now, platformOS, lastWrite>>
    /\ UNCHANGED offCacheVars

\* loadCachedCapabilities, lines 262-265: getDatabase() throws 'Database not
\* initialized' or executeSql rejects; the catch block returns null
LoadCachedFails(p) ==
    /\ call[p].pc = "load"
    /\ call' = [call EXCEPT ![p].cached = NoCapabilities,
                            ![p].read = "failed",
                            ![p].readAt = now,
                            ![p].pc = "detect"]
    /\ UNCHANGED <<dbOpen, table, now, platformOS, lastWrite>>
    /\ UNCHANGED offCacheVars

\* lines 25-41: the five probes and the classification
Detect(p, duration) ==
    /\ call[p].pc = "detect"
    /\ call' = [call EXCEPT ![p].capabilities = DetectedCapabilities(platformOS, duration),
                            ![p].pc = "cache"]
    /\ UNCHANGED <<dbOpen, table, now, platformOS, lastWrite>>
    /\ UNCHANGED offCacheVars

\* Faulty variant of CacheWrite: the capability columns are replaced but
\* last_assessed keeps the value of the row that was there.
CacheWrite_KeepsOldTimestamp(p) ==
    /\ call[p].pc = "cache"
    /\ dbOpen
    /\ LET old == SelectCacheRow(table)
           time == IF old = {} THEN now ELSE (CHOOSE r \in old : TRUE).last_assessed
       IN  /\ table' = InsertOrReplace(table, CacheRow(call[p].capabilities, time))
           /\ lastWrite' = CacheRow(call[p].capabilities, now)
           /\ call' = [call EXCEPT ![p].wrote = "ok",
                                   ![p].writtenRow = CacheRow(call[p].capabilities, now),
                                   ![p].returned = call[p].capabilities,
                                   ![p].pc = "done"]
    /\ UNCHANGED <<dbOpen, now, platformOS>>
    /\ UNCHANGED offCacheVars

\* lines 44-46 with cacheDeviceCapabilities, lines 202-221: the statement executes
CacheWrite(p) ==
    /\ call[p].pc = "cache"
    /\ dbOpen
    /\ LET row == CacheRow(call[p].capabilities, now)
       IN  /\ table' = InsertOrReplace(table, row)
           /\ lastWrite' = row
           /\ call' = [call EXCEPT ![p].wrote = "ok",
                                   ![p].writtenRow = row,
                                   ![p].returned = call[p].capabilities,
                                   ![p].pc = "done"]
    /\ UNCHANGED <<dbOpen, now, platformOS>>
    /\ UNCHANGED offCacheVars

\* Faulty variant of CacheWriteFails: the failed write clears the table.
CacheWriteFails_ClearsTable(p) ==
    /\ call[p].pc = "cache"
    /\ table' = {}
    /\ call' = [call EXCEPT ![p].wrote = "failed",
                            ![p].returned = call[p].capabilities,
                            ![p].pc = "done"]
    /\ UNCHANGED <<dbOpen, now, platformOS, lastWrite>>
    /\ UNCHANGED offCacheVars

\* cacheDeviceCapabilities, lines 222-225: getDatabase() throws or executeSql
\* rejects; the error is logged and the capabilities are returned (line 46)
CacheWriteFails(p) ==
    /\ call[p].pc = "cache"
    /\ call' = [call EXCEPT ![p].wrote = "failed",
                            ![p].returned = call[p].capabilities,
                            ![p].pc = "done"]
    /\ UNCHANGED <<dbOpen, table, now, platformOS, lastWrite>>
    /\ UNCHANGED offCacheVars

\* the caller has the value; the next call can start
NextCall(p) ==
    /\ call[p].pc = "done"
    /\ call' = [call EXCEPT ![p] = IdleCall]
    /\ UNCHANGED <<dbOpen, table, now, platformOS, lastWrite>>
    /\ UNCHANGED offCacheVars

\* DatabaseManager.initialize()
InitializeDatabase ==
    /\ ~dbOpen
    /\ dbOpen' = TRUE
    /\ UNCHANGED <<table, now, platformOS, call, lastWrite>>
    /\ UNCHANGED offCacheVars

\* DatabaseManager.close()
CloseDatabase ==
    /\ dbOpen
    /\ dbOpen' = FALSE
    /\ UNCHANGED <<table, now, platformOS, call, lastWrite>>
    /\ UNCHANGED offCacheVars

\* a day passes
Tick(limit) ==
    /\ now < limit
    /\ now' = now + 1
    /\ UNCHANGED <<dbOpen, table, platformOS, call, lastWrite>>
    /\ UNCHANGED offCacheVars

\* The router part is not part of the specification.
Part1Unused ==
    /\ config = NoConfig
    /\ pc = "idle"
    /\ currentTier = NoTier
    /\ fallbackUsed = FALSE
    /\ fallbackTier = NoTier
    /\ calls = <<>>
    /\ result = NoResult
    /\ raised = NoError
    /\ capabilities = NoConfig
    /\ connectivity = NoConfig
    /\ userConsent = NoConfig
    /\ selected = NoTier
    /\ updated = NoConfig
    /\ chain = <<>>

\* SpecCache: one caller, calling again and again while days pass
InitCache ==
    /\ dbOpen = FALSE
    /\ table = {}
    /\ now = 0
    /\ platformOS \in PlatformOS
    /\ call = [p \in {1} |-> IdleCall]
    /\ lastWrite = NoRow
    /\ Part1Unused
    /\ PipelineUnused
    /\ AnalysisUnused
    /\ ProgressUnused
    /\ PhasesUnused

NextCache ==
    \/ \E p \in DOMAIN call, f \in BOOLEAN : StartDetect(p, f)
    \/ \E p \in DOMAIN call : LoadCached(p)
    \/ \E p \in DOMAIN call : LoadCachedFails(p)
    \/ \E p \in DOMAIN call, d \in Durations : Detect(p, d)
    \/ \E p \in DOMAIN call : CacheWrite(p)
    \/ \E p \in DOMAIN call : CacheWriteFails(p)
    \/ \E p \in DOMAIN call : NextCall(p)
    \/ InitializeDatabase
    \/ CloseDatabase
    \/ Tick(MaxTime)

SpecCache == InitCache /\ [][NextCache]_vars

\* SpecRace: NumCallers concurrent calls, one per caller, on the database
\* the app opened at startup, on an android device (the platform decides
\* only the values the probes return)
InitRace ==
    /\ dbOpen = TRUE
    /\ table = {}
    /\ now = 0
    /\ platformOS = "android"
    /\ call = [p \in 1..NumCallers |-> IdleCall]
    /\ lastWrite = NoRow
    /\ Part1Unused
    /\ PipelineUnused
    /\ AnalysisUnused
    /\ ProgressUnused
    /\ PhasesUnused

NextRace ==
    \/ \E p \in DOMAIN call, f \in BOOLEAN : StartDetect(p, f)
    \/ \E p \in DOMAIN call : LoadCached(p)
    \/ \E p \in DOMAIN call : LoadCachedFails(p)
    \/ \E p \in DOMAIN call, d \in Durations : Detect(p, d)
    \/ \E p \in DOMAIN call : CacheWrite(p)
    \/ \E p \in DOMAIN call : CacheWriteFails(p)
    \/ Tick(MaxRaceTime)

SpecRace == InitRace /\ [][NextRace]_vars

----------------------------------------------------------------------------
(* Part 3: the strategies handed to routeVideoAnalysis                     *)
(*   src/src/video/VideoAnalysisIntegration.ts  performAnalysisByTier,     *)
(*     passed by recordAndAnalyzeSession (105-109) and                     *)
(*     analyzeExistingVideo (175-179), which copy tier and fallbackUsed of *)
(*     the ProcessingResult unchanged (141-149, 187)                       *)
(*   src/src/database/schema.ts:180-224  performMLAnalysisWithFallback,    *)
(*     passed by example2_AdaptiveProcessing                               *)
(*     (src/src/examples/LightweightMLExample.ts:65-71)                    *)
(* SpecPipeline is one call of routeVideoAnalysis with one of the two      *)
(* strategies; every strategy invocation of the router runs the strategy's *)
(* code, one step per engine it awaits.                                    *)

\* the analysis functions the shipped callers pass to routeVideoAnalysis
Strategies == {"performAnalysisByTier", "performMLAnalysisWithFallback"}

\* the two engines: performBasicAnalysis and performLightweightMLAnalysis
Engines == {"basic", "lightweight_ml"}

\* a FormAnalysisResult, abstracted to the engine that computed it
EngineResult(engine) == [engine |-> engine]

\* the error an engine rejects with
EngineError(engine) == [failed |-> engine]

\* the tier of the strategy invocation the router makes at its position:
\* currentTier (line 116), fallbackTier (line 139), 'basic' (line 155)
InvokedTier ==
    CASE pc = "primary" -> currentTier
      [] pc = "fallback" -> fallbackTier
      [] pc = "lastResort" -> "basic"
      [] OTHER -> NoTier

\* Faulty variant of FirstEngine: full_ml and cloud go straight to basic.
FirstEngine_BasicForHighTiers(s, tier) ==
    IF s = "performMLAnalysisWithFallback" /\ tier = "lightweight_ml"
    THEN "lightweight_ml"
    ELSE "basic"

\* the engine the strategy awaits first: performAnalysisByTier runs
\* performBasicAnalysis in every case of its switch (lines 43-61);
\* performMLAnalysisWithFallback runs performLightweightMLAnalysis for
\* lightweight_ml, full_ml and cloud (189, 202, 214) and performBasicAnalysis
\* for basic (223)
FirstEngine(s, tier) ==
    IF s = "performMLAnalysisWithFallback" /\ tier # "basic"
    THEN "lightweight_ml"
    ELSE "basic"

\* one engine run inside a strategy invocation
EngineRun(engine, ok) == [engine |-> engine, ok |-> ok]

\* The router awaits analysisFunction(videoPath, tier): the strategy starts.
InvokeStrategy ==
    /\ pc \in {"primary", "fallback", "lastResort"}
    /\ inv.forCall # Len(calls) + 1
    /\ inv' = [forCall |-> Len(calls) + 1,
               tier |-> InvokedTier,
               at |-> FirstEngine(strategy, InvokedTier),
               runs |-> <<>>,
               value |-> NoResult]
    /\ UNCHANGED <<config, routerVars, strategy>>
    /\ UNCHANGED offPipelineVars

\* schema.ts:189-191, 202-203, 214-215: performLightweightMLAnalysis resolves
\* and its result is returned
LightweightResolves ==
    /\ inv.forCall = Len(calls) + 1
    /\ inv.at = "lightweight_ml"
    /\ inv' = [inv EXCEPT !.at = "returned",
                          !.runs = Append(@, EngineRun("lightweight_ml", TRUE)),
                          !.value = EngineResult("lightweight_ml")]
    /\ UNCHANGED <<config, routerVars, strategy>>
    /\ UNCHANGED offPipelineVars

\* schema.ts:192-194, 204-206, 216-218: performLightweightMLAnalysis rejects;
\* the catch block goes on to performBasicAnalysis
LightweightRejects ==
    /\ inv.forCall = Len(calls) + 1
    /\ inv.at = "lightweight_ml"
    /\ inv' = [inv EXCEPT !.at = "basic",
                          !.runs = Append(@, EngineRun("lightweight_ml", FALSE))]
    /\ UNCHANGED <<config, routerVars, strategy>>
    /\ UNCHANGED offPipelineVars

\* performBasicAnalysis resolves and its result is returned
\* (VideoAnalysisIntegration.ts:45-60, schema.ts:194, 206, 218, 223)
BasicResolves ==
    /\ inv.forCall = Len(calls) + 1
    /\ inv.at = "basic"
    /\ inv' = [inv EXCEPT !.at = "returned",
                          !.runs = Append(@, EngineRun("basic", TRUE)),
                          !.value = EngineResult("basic")]
    /\ UNCHANGED <<config, routerVars, strategy>>
    /\ UNCHANGED offPipelineVars

\* performBasicAnalysis rejects: nothing catches it inside the strategy
BasicRejects ==
    /\ inv.forCall = Len(calls) + 1
    /\ inv.at = "basic"
    /\ inv' = [inv EXCEPT !.at = "raised",
                          !.runs = Append(@, EngineRun("basic", FALSE)),
                          !.value = EngineError("basic")]
    /\ UNCHANGED <<config, routerVars, strategy>>
    /\ UNCHANGED offPipelineVars

\* the strategy invocation the router awaits has resolved
StrategyReturned == inv.forCall = Len(calls) + 1 /\ inv.at = "returned"

\* the strategy invocation the router awaits has rejected
StrategyRaised == inv.forCall = Len(calls) + 1 /\ inv.at = "raised"

\* One call of routeVideoAnalysis with any config and either strategy.
InitPipeline ==
    /\ config \in ProcessingConfig
    /\ pc = "idle"
    /\ currentTier = NoTier
    /\ fallbackUsed = FALSE
    /\ fallbackTier = NoTier
    /\ calls = <<>>
    /\ result = NoResult
    /\ raised = NoError
    /\ capabilities = NoConfig
    /\ connectivity = NoConfig
    /\ userConsent = NoConfig
    /\ selected = NoTier
    /\ updated = NoConfig
    /\ chain = <<>>
    /\ CacheUnused
    /\ strategy \in Strategies
    /\ inv = NoInvocation
    /\ AnalysisUnused
    /\ ProgressUnused
    /\ PhasesUnused

NextPipeline ==
    \/ RouteStart
    \/ InvokeStrategy
    \/ LightweightResolves
    \/ LightweightRejects
    \/ BasicResolves
    \/ BasicRejects
    \/ StrategyReturned /\ PrimarySucceeds(inv.value)
    \/ StrategyRaised /\ PrimaryFails(inv.value)
    \/ StrategyReturned /\ FallbackSucceeds(inv.value)
    \/ StrategyRaised /\ FallbackFails(inv.value)
    \/ StrategyReturned /\ LastResortSucceeds(inv.value)
    \/ StrategyRaised /\ LastResortFails(inv.value)

SpecPipeline == InitPipeline /\ [][NextPipeline]_vars

----------------------------------------------------------------------------
(* Properties of detectDeviceCapabilities, checked under SpecCache and     *)
(* SpecRace                                                                *)

\* The calls that have passed the cache lookup of detectDeviceCapabilities(false).
LookedUp == {p \in DOMAIN call : ~call[p].forceRefresh /\ call[p].pc \notin {"idle", "load"}}

\* The call answered from the cache: it returned what it loaded.
AnsweredFromCache(p) ==
    /\ call[p].pc = "done"
    /\ call[p].cached # NoCapabilities
    /\ call[p].returned = call[p].cached
    /\ call[p].capabilities = NoCapabilities
    /\ call[p].wrote = "none"

\* The call went on to full detection (and, once done, returned its result).
FullyDetected(p) ==
    /\ call[p].cached = NoCapabilities
    /\ call[p].pc = "done" =>
          /\ call[p].capabilities # NoCapabilities
          /\ call[p].returned = call[p].capabilities
          /\ call[p].wrote # "none"

\* C11 as stated: detectDeviceCapabilities(false) returns the cached record
\* exactly when a record exists and now - lastAssessed < 7 days; with no
\* record or an age of 7 days or more it performs full detection.
C11_Original_FreshBelowSevenDays ==
    \A p \in LookedUp :
        call[p].read = "ok" =>
            IF \E r \in call[p].readRows : call[p].readAt - r.last_assessed < SevenDays
            THEN AnsweredFromCache(p)
            ELSE FullyDetected(p)

\* C11 amended: detectDeviceCapabilities(false) returns the cached record
\* unchanged exactly when the cache read succeeds, a record exists and
\* now - lastAssessed <= 7 days (a record aged exactly 7 days is still
\* used); in every other case (failed read, no record, or an age of more
\* than 7 days, e.g. 8 days) the cache is treated as absent and full
\* detection is performed.
C11_FreshUpToSevenDays ==
    \A p \in LookedUp :
        IF /\ call[p].read = "ok"
           /\ \E r \in call[p].readRows : call[p].readAt - r.last_assessed <= SevenDays
        THEN /\ AnsweredFromCache(p)
             /\ \E r \in call[p].readRows :
                   r = CacheRow(call[p].returned, r.last_assessed)
        ELSE FullyDetected(p)

\* C11 witness: a call answered from a record that is exactly 7 days old.
C11_Witness ==
    \E p \in LookedUp :
        /\ AnsweredFromCache(p)
        /\ \E r \in call[p].readRows : call[p].readAt - r.last_assessed = SevenDays

\* What C12 says of every state: at most one record; a call answered from
\* the cache left the table as it found it; a detection whose write
\* succeeded left exactly its own capabilities; a forced call detected
\* without looking at the cache.
C12_CacheState ==
    /\ Cardinality(table) <= 1
    /\ \A r \in table : r.id = 1
    /\ \A p \in DOMAIN call :
          /\ AnsweredFromCache(p) => table = call[p].tableBefore
          /\ (call[p].pc = "done" /\ call[p].wrote = "ok") =>
                /\ table = {call[p].writtenRow}
                /\ RowCapabilities(call[p].writtenRow) = call[p].returned
                /\ call[p].returned = call[p].capabilities
          /\ (call[p].forceRefresh /\ call[p].pc = "done") =>
                /\ call[p].read = "none"
                /\ call[p].capabilities # NoCapabilities
                /\ call[p].returned = call[p].capabilities
                /\ call[p].wrote # "none"

\* C12: after any sequence of detectDeviceCapabilities calls the cache holds
\* at most one record; a call answered from the cache leaves the record and
\* its lastAssessed unchanged; every full detection whose write succeeds
\* leaves exactly the newly computed capabilities with lastAssessed = the
\* time of the write, replacing any prior record; a call with forceRefresh
\* = true always performs full detection.
C12_SingleRecordCache ==
    /\ []C12_CacheState
    /\ [][\A p \in DOMAIN call :
            (call'[p].wrote = "ok" /\ call[p].wrote # "ok") =>
                table' = {CacheRow(call[p].capabilities, now)}]_vars
    /\ [][table' # table =>
            \E p \in DOMAIN call : call'[p].wrote = "ok" /\ call[p].wrote # "ok"]_vars

\* C12 witness: a forced call replaced a record that was still fresh.
C12_Witness ==
    \E p \in DOMAIN call :
        /\ call[p].forceRefresh
        /\ call[p].pc = "done"
        /\ call[p].wrote = "ok"
        /\ call[p].tableBefore # table
        /\ \E r \in call[p].tableBefore : now - r.last_assessed < SevenDays
        /\ Cardinality(table) = 1

\* C13: when the cache write fails during full detection, the call still
\* returns the freshly computed capabilities without raising and the cache
\* content stays as it was before the call; a failing cache read is treated
\* as an absent cache (full detection follows) and is never propagated.
C13_CacheFailuresSwallowed ==
    /\ [](\A p \in DOMAIN call :
            /\ (call[p].pc = "done" /\ call[p].wrote = "failed") =>
                  /\ call[p].capabilities # NoCapabilities
                  /\ call[p].returned = call[p].capabilities
                  /\ table = call[p].tableBefore
            /\ (call[p].read = "failed" /\ call[p].pc # "load") =>
                  /\ call[p].cached = NoCapabilities
                  /\ call[p].pc \in {"detect", "cache", "done"}
                  /\ call[p].pc = "done" =>
                        /\ call[p].capabilities # NoCapabilities
                        /\ call[p].returned = call[p].capabilities)
    /\ [][\A p \in DOMAIN call :
            (call'[p].wrote = "failed" /\ call[p].wrote # "failed") =>
                /\ table' = table
                /\ call'[p].pc = "done"
                /\ call'[p].returned = call[p].capabilities]_vars

\* C13 witness: a call whose cache read failed and whose write failed too
\* finished with its own capabilities while an older record stayed in place.
C13_Witness ==
    \E p \in DOMAIN call :
        /\ call[p].pc = "done"
        /\ call[p].read = "failed"
        /\ call[p].wrote = "failed"
        /\ call[p].returned = call[p].capabilities
        /\ table # {}
        /\ \A r \in table : RowCapabilities(r) # call[p].returned

\* the rows written by the calls of the race
RowsWritten == {call[q].writtenRow : q \in {q \in DOMAIN call : call[q].wrote = "ok"}}

\* C14: under any interleaving of concurrent detectDeviceCapabilities calls,
\* every cache read observes either no record or one complete record whose
\* capability fields and lastAssessed come from one single write, and after
\* all calls have finished the cache holds the record of the write that
\* executed last (or nothing when no write succeeded).
C14_AtomicReplace ==
    /\ \A p \in DOMAIN call :
          call[p].read = "ok" =>
              \/ call[p].readRows = {}
              \/ /\ Cardinality(call[p].readRows) = 1
                 /\ call[p].readRows \subseteq RowsWritten
    /\ (\A p \in DOMAIN call : call[p].pc = "done") =>
          IF RowsWritten = {} THEN table = {} /\ lastWrite = NoRow
          ELSE table = {lastWrite} /\ lastWrite \in RowsWritten

\* C14 witness: one call read the empty cache, another wrote, then the first
\* wrote a different record over it; both finished.
C14_Witness ==
    \E p, q \in DOMAIN call :
        /\ p # q
        /\ \A x \in DOMAIN call : call[x].pc = "done"
        /\ call[p].read = "ok" /\ call[p].readRows = {}
        /\ call[p].wrote = "ok" /\ call[q].wrote = "ok"
        /\ call[p].writtenRow # call[q].writtenRow
        /\ lastWrite = call[p].writtenRow
        /\ table = {call[p].writtenRow}

\* C14 witness of the other case: a call read the complete record that a
\* concurrent call had written.
C14_ReadWholeRecord ==
    \E p, q \in DOMAIN call :
        /\ p # q
        /\ call[p].read = "ok"
        /\ call[p].readRows = {call[q].writtenRow}
        /\ call[q].wrote = "ok"

----------------------------------------------------------------------------
(* Properties of the shipped pipelines, checked under SpecPipeline         *)

\* the successful result carries data computed by an engine below the tier
\* of the strategy invocation that returned it
Degraded ==
    /\ result # NoResult
    /\ result.data.engine # calls[Len(calls)].tier

\* C15: in the shipped pipelines, whenever the data of a successful result
\* was produced by a lower-tier engine than the tier the router invoked, the
\* reported tier names the engine that ran and fallbackUsed is true; a
\* degraded result is never reported under the requested tier with
\* fallbackUsed = false.
C15_DegradedResultLabelled ==
    Degraded => (result.tier = result.data.engine /\ result.fallbackUsed)

\* What the code does instead (C15): a result is reported under the tier of
\* the invocation that returned it, and fallbackUsed tells only whether the
\* router itself changed tier, whichever engine the strategy ran inside.
C15_CodeLabelsByInvokedTier ==
    result # NoResult =>
        /\ result.tier = calls[Len(calls)].tier
        /\ result.fallbackUsed = (Len(calls) > 1 \/ result.tier # config.selectedTier)

\* C15: the router's first invocation succeeded at a tier above basic with
\* data of the basic engine, reported under that tier without fallbackUsed.
C15_UnlabelledDegradedResult ==
    /\ Degraded
    /\ Len(calls) = 1
    /\ result.tier = config.selectedTier
    /\ result.data.engine = "basic"
    /\ ~result.fallbackUsed

\* the strategy invocations that C16 speaks of
HighTierMLInvocation ==
    /\ strategy = "performMLAnalysisWithFallback"
    /\ inv.forCall # 0
    /\ inv.tier \in {"full_ml", "cloud"}

\* C16: performMLAnalysisWithFallback called with tier full_ml or cloud
\* first runs the lightweight_ml analysis and returns its result if it
\* succeeds; it runs the basic analysis only after the lightweight_ml
\* analysis has failed, returns the basic result if that succeeds, and
\* raises only if both failed; basic is never run before or instead of a
\* lightweight_ml attempt.
C16_LightweightBeforeBasic ==
    HighTierMLInvocation =>
        /\ inv.runs \in {<<>>,
                         <<EngineRun("lightweight_ml", TRUE)>>,
                         <<EngineRun("lightweight_ml", FALSE)>>,
                         <<EngineRun("lightweight_ml", FALSE), EngineRun("basic", TRUE)>>,
                         <<EngineRun("lightweight_ml", FALSE), EngineRun("basic", FALSE)>>}
        /\ inv.at = "lightweight_ml" <=> inv.runs = <<>>
        /\ inv.at = "basic" <=> inv.runs = <<EngineRun("lightweight_ml", FALSE)>>
        /\ inv.at = "returned" <=>
              (inv.runs # <<>> /\ inv.runs[Len(inv.runs)].ok)
        /\ inv.at = "returned" =>
              inv.value = EngineResult(inv.runs[Len(inv.runs)].engine)
        /\ inv.at = "raised" <=>
              inv.runs = <<EngineRun("lightweight_ml", FALSE), EngineRun("basic", FALSE)>>

\* C16 witness: a cloud or full_ml invocation returned the basic result
\* after its lightweight_ml attempt had failed.
C16_Witness ==
    /\ HighTierMLInvocation
    /\ inv.at = "returned"
    /\ inv.runs = <<EngineRun("lightweight_ml", FALSE), EngineRun("basic", TRUE)>>
    /\ inv.value = EngineResult("basic")

----------------------------------------------------------------------------
(* Part 4: the analysis engines                                            *)
(*   src/src/analysis/BasicAnalysisEngine.ts   performBasicAnalysis        *)
(*   src/src/ml/LightweightFormAnalyzer.ts     performLightweightMLAnalysis*)
(* A video is abstracted to what the engine measures on it: a              *)
(* MotionAnalysisResult for the basic engine, a BiomechanicalAnalysis for  *)
(* the lightweight engine. Angles are whole degrees, durations whole       *)
(* milliseconds, normalized lengths hundredths. An issue is its type and   *)
(* severity; description and drills are fixed texts per branch.            *)
(* SpecAnalysis is the app analysing one video after another with either   *)
(* engine; the state holds the last analysis, so that a step relates two   *)
(* results.                                                                *)

\* export type FormScore
FormScore == {"A", "B", "C", "D", "F"}

\* export type FormIssueType
FormIssueType == {"elbow_flare", "wrist_angle", "stance", "follow_through"}

\* export type FormIssueSeverity
FormIssueSeverity == {"minor", "moderate", "major"}

\* interface FormIssue
FormIssue(type, severity) == [type |-> type, severity |-> severity]

\* const severityOrder = { major: 0, moderate: 1, minor: 2 }
severityOrder(severity) ==
    CASE severity = "major" -> 0
      [] severity = "moderate" -> 1
      [] severity = "minor" -> 2

\* Math.abs
Abs(x) == IF x < 0 THEN -x ELSE x

\* Math.max(0, x)
Max0(x) == IF x < 0 THEN 0 ELSE x

\* Math.min
Min(a, b) == IF a < b THEN a ELSE b

\* array.slice(0, n)
Slice(s, n) == SubSeq(s, 1, Min(n, Len(s)))

\* array.sort((a, b) => severityOrder[a.severity] - severityOrder[b.severity]):
\* the sort is stable, so the array ends as its major issues, then its
\* moderate ones, then its minor ones, each group in its former order
SortBySeverity(issues) ==
    SelectSeq(issues, LAMBDA i : i.severity = "major")
        \o SelectSeq(issues, LAMBDA i : i.severity = "moderate")
        \o SelectSeq(issues, LAMBDA i : i.severity = "minor")

\* the letter grade of a score given in hundredths of a point
\* (BasicAnalysisEngine.ts:217-221, LightweightFormAnalyzer.ts:376-380)
LetterGrade(hundredths) ==
    IF hundredths >= 9000 THEN "A"
    ELSE IF hundredths >= 8000 THEN "B"
    ELSE IF hundredths >= 7000 THEN "C"
    ELSE IF hundredths >= 6000 THEN "D"
    ELSE "F"

\* Sample motions: for every measurement one value inside the range the MVP
\* extraction draws from (BasicAnalysisEngine.ts:67-72, 97-103) and values
\* beyond each threshold of the scoring and issue rules.
ReleaseAngles == {48, 60}

ElbowAngles == {90, 78, 108}

ShoulderAlignments == {0, 18}

WristAngles == {0, 12}

StanceWidths == {50, 80}

FollowThroughDurations == {350, 220, 150}

ArcHeights == {75, 95}

\* interface MotionAnalysisResult, the fields the engine reads
MotionAnalysisResult ==
    [releaseAngle : ReleaseAngles, elbowAngle : ElbowAngles,
     shoulderAlignment : ShoulderAlignments, wristAngle : WristAngles,
     stanceWidth : StanceWidths, followThroughDuration : FollowThroughDurations,
     arcHeight : ArcHeights]

\* the motions analyzeVideoMotion can return while extraction is simulated
SimulatedMotion(motion) ==
    /\ Abs(motion.releaseAngle - 48) <= 5
    /\ Abs(motion.elbowAngle - 85) <= 10
    /\ Abs(motion.shoulderAlignment) <= 10
    /\ 2 * Abs(motion.wristAngle) <= 15
    /\ Abs(motion.stanceWidth - 50) <= 15
    /\ motion.followThroughDuration >= 300 /\ motion.followThroughDuration <= 500
    /\ 2 * Abs(motion.arcHeight - 75) <= 15

\* applyRuleBasedScoring, lines 175-214: the numeric score
RuleBasedPoints(motion) ==
    100
    - (IF Abs(motion.releaseAngle - 48) > 10 THEN 20
       ELSE IF Abs(motion.releaseAngle - 48) > 5 THEN 10 ELSE 0)
    - (IF Abs(motion.elbowAngle - 90) > 15 THEN 20
       ELSE IF Abs(motion.elbowAngle - 90) > 10 THEN 10 ELSE 0)
    - (IF Abs(motion.shoulderAlignment) > 15 THEN 15
       ELSE IF Abs(motion.shoulderAlignment) > 10 THEN 8 ELSE 0)
    - (IF motion.followThroughDuration < 200 THEN 15
       ELSE IF motion.followThroughDuration < 250 THEN 8 ELSE 0)
    - (IF Abs(motion.arcHeight - 75) > 15 THEN 10
       ELSE IF Abs(motion.arcHeight - 75) > 10 THEN 5 ELSE 0)

\* applyRuleBasedScoring(motion): FormScore
applyRuleBasedScoring(motion) == LetterGrade(100 * RuleBasedPoints(motion))

\* detectFormIssues(motion): the issues in the order they are pushed
detectFormIssues(motion) ==
    (IF Abs(motion.elbowAngle - 90) > 15 THEN <<FormIssue("elbow_flare", "major")>>
     ELSE IF Abs(motion.elbowAngle - 90) > 10 THEN <<FormIssue("elbow_flare", "moderate")>>
     ELSE <<>>)
    \o (IF Abs(motion.wristAngle) > 10 THEN <<FormIssue("wrist_angle", "moderate")>> ELSE <<>>)
    \o (IF Abs(motion.stanceWidth - 50) > 20 THEN <<FormIssue("stance", "minor")>> ELSE <<>>)
    \o (IF motion.followThroughDuration < 200 THEN <<FormIssue("follow_through", "major")>>
        ELSE IF motion.followThroughDuration < 250 THEN <<FormIssue("follow_through", "moderate")>>
        ELSE <<>>)

\* Math.round of a non-negative number given in tenths
RoundTenths(tenths) == (tenths + 5) \div 10

\* interface BiomechanicalMetrics
BiomechanicalMetrics(elbow, wrist, shoulder, follow) ==
    [elbowAlignment |-> elbow, wristAngle |-> wrist,
     shoulderSquare |-> shoulder, followThrough |-> follow]

\* calculateBiomechanicalMetrics(motion)
calculateBiomechanicalMetrics(motion) ==
    BiomechanicalMetrics(
        Max0(100 - Abs(motion.elbowAngle - 90) * 5),
        Max0(100 - Abs(motion.wristAngle) * 6),
        Max0(100 - Abs(motion.shoulderAlignment) * 4),
        RoundTenths(Max0(1000 - Abs(motion.followThroughDuration - 350) * 3)))

\* Faulty variant of generateFeedbackMessages: a copy of the array is sorted.
generateFeedbackMessages_SortsCopy(score, issues) ==
    [messages |-> <<score>> \o Slice(SortBySeverity(issues), 2),
     issues |-> issues]

\* generateFeedbackMessages(score, issues): the messages returned (the score
\* message, then the descriptions of the top 2 issues) and the array
\* `issues` as the call leaves it: issues.sort(...) at line 350 sorts the
\* caller's array in place, slice(0, 2) copies
generateFeedbackMessages(score, issues) ==
    [messages |-> <<score>> \o Slice(SortBySeverity(issues), 2),
     issues |-> SortBySeverity(issues)]

\* interface FormAnalysisResult
FormAnalysisResult(score, issues, metrics) ==
    [overallScore |-> score, detectedIssues |-> issues, biomechanicalMetrics |-> metrics]

\* performBasicAnalysis, lines 373-401, on the motion of the video; the
\* result holds the array detectedIssues as step 6 has left it
performBasicAnalysis(motion) ==
    LET overallScore == applyRuleBasedScoring(motion)
        detectedIssues == detectFormIssues(motion)
        biomechanicalMetrics == calculateBiomechanicalMetrics(motion)
        step6 == generateFeedbackMessages(overallScore, detectedIssues)
    IN  FormAnalysisResult(overallScore, step6.issues, biomechanicalMetrics)

\* Sample scores of the lightweight engine: both sides of every threshold
\* of detectFormIssuesFromPose, and two body balances the simulated
\* keypoints can give (PoseEstimationEngine, part_002:303-311).
ElbowAlignments == {59, 60, 74, 75}

WristScores == {64, 65, 79, 80}

ShoulderSquares == {69, 70}

FollowThroughs == {59, 60, 74, 75}

BodyBalances == {60, 88}

\* interface BiomechanicalAnalysis; releaseHeight is read by nothing
BiomechanicalAnalysis ==
    [elbowAlignment : ElbowAlignments, wristAngle : WristScores,
     shoulderSquare : ShoulderSquares, followThrough : FollowThroughs,
     bodyBalance : BodyBalances]

\* calculateFormScore(biomechanics): the weighted sum, in hundredths
calculateFormScore(biomechanics) ==
    LetterGrade(25 * biomechanics.elbowAlignment + 20 * biomechanics.wristAngle
                + 20 * biomechanics.shoulderSquare + 25 * biomechanics.followThrough
                + 10 * biomechanics.bodyBalance)

\* detectFormIssuesFromPose, lines 390-473: the issues in the order pushed
PoseIssues(biomechanics) ==
    (IF biomechanics.elbowAlignment < 60 THEN <<FormIssue("elbow_flare", "major")>>
     ELSE IF biomechanics.elbowAlignment < 75 THEN <<FormIssue("elbow_flare", "moderate")>>
     ELSE <<>>)
    \o (IF biomechanics.wristAngle < 65 THEN <<FormIssue("wrist_angle", "moderate")>>
        ELSE IF biomechanics.wristAngle < 80 THEN <<FormIssue("wrist_angle", "minor")>>
        ELSE <<>>)
    \o (IF biomechanics.shoulderSquare < 70 THEN <<FormIssue("stance", "moderate")>> ELSE <<>>)
    \o (IF biomechanics.followThrough < 60 THEN <<FormIssue("follow_through", "major")>>
        ELSE IF biomechanics.followThrough < 75 THEN <<FormIssue("follow_through", "moderate")>>
        ELSE <<>>)

\* Faulty variant of detectFormIssuesFromPose: the slice is taken unsorted.
detectFormIssuesFromPose_NoSort(biomechanics) ==
    Slice(PoseIssues(biomechanics), 3)

\* detectFormIssuesFromPose(biomechanics, phases): sorted, then slice(0, 3)
detectFormIssuesFromPose(biomechanics) ==
    Slice(SortBySeverity(PoseIssues(biomechanics)), 3)

\* performLightweightMLAnalysis, lines 77-97, on the biomechanics of the video
performLightweightMLAnalysis(biomechanics) ==
    FormAnalysisResult(
        calculateFormScore(biomechanics),
        detectFormIssuesFromPose(biomechanics),
        BiomechanicalMetrics(biomechanics.elbowAlignment, biomechanics.wristAngle,
                             biomechanics.shoulderSquare, biomechanics.followThrough))

\* one analysis: the engine, what it measured, what it returned
Analysis(engine, input, res) == [engine |-> engine, input |-> input, result |-> res]

\* performBasicAnalysis(videoPath) resolves for a video with this motion
PerformBasicAnalysis(motion) ==
    /\ analysis' = Analysis("basic", motion, performBasicAnalysis(motion))
    /\ UNCHANGED feedback
    /\ UNCHANGED offAnalysisVars

\* performLightweightMLAnalysis(videoPath) resolves for a video with these biomechanics
PerformLightweightMLAnalysis(biomechanics) ==
    /\ analysis' = Analysis("lightweight_ml", biomechanics,
                            performLightweightMLAnalysis(biomechanics))
    /\ UNCHANGED feedback
    /\ UNCHANGED offAnalysisVars

\* The app before its first analysis.
InitAnalysis ==
    /\ analysis = NoAnalysis
    /\ feedback = NoFeedback
    /\ Part1Unused
    /\ CacheUnused
    /\ PipelineUnused
    /\ ProgressUnused
    /\ PhasesUnused

NextAnalysis ==
    \/ \E motion \in MotionAnalysisResult : PerformBasicAnalysis(motion)
    \/ \E biomechanics \in BiomechanicalAnalysis : PerformLightweightMLAnalysis(biomechanics)

SpecAnalysis == InitAnalysis /\ [][NextAnalysis]_vars

----------------------------------------------------------------------------
(* Properties of the analysis engines, checked under SpecAnalysis          *)

\* two analyses by the same strategy with equal biomechanicalMetrics follow
\* one another
SameMetricsStep ==
    /\ analysis # NoAnalysis
    /\ analysis'.engine = analysis.engine
    /\ analysis'.result.biomechanicalMetrics = analysis.result.biomechanicalMetrics

C17_LightweightScoreFunctionOfMetrics ==
    [][(SameMetricsStep /\ analysis.engine = "lightweight_ml") =>
         analysis'.result.overallScore = analysis.result.overallScore]_vars

\* C17, the basic strategy alone.
C17_BasicScoreFunctionOfMetrics ==
    [][(SameMetricsStep /\ analysis.engine = "basic") =>
         analysis'.result.overallScore = analysis.result.overallScore]_vars

\* C17, the basic strategy on the motions the simulated extraction returns:
\* there the score is A whatever the metrics.
C17_BasicOnSimulatedMotion ==
    (analysis # NoAnalysis /\ analysis.engine = "basic" /\ SimulatedMotion(analysis.input))
        => analysis.result.overallScore = "A"

\* the list is ordered most severe first
SeveritySorted(issues) ==
    \A i \in 1..Len(issues) : \A j \in i..Len(issues) :
        severityOrder(issues[i].severity) <= severityOrder(issues[j].severity)

\* C18: for every motion input, the detectedIssues list of the result of
\* performBasicAnalysis is ordered most severe first (the severity rank
\* major < moderate < minor is non-decreasing along the list), as it is for
\* the lightweight_ml strategy.
C18_DetectedIssuesSorted ==
    analysis # NoAnalysis =>
        /\ SeveritySorted(analysis.result.detectedIssues)
        /\ analysis.engine = "basic" =>
              /\ Len(analysis.result.detectedIssues) = Len(detectFormIssues(analysis.input))
              /\ \A i \in 1..Len(detectFormIssues(analysis.input)) :
                    \E j \in 1..Len(analysis.result.detectedIssues) :
                        analysis.result.detectedIssues[j] = detectFormIssues(analysis.input)[i]

\* C18 witness: the basic engine returned its issues in another order than
\* detectFormIssues had pushed them.
C18_Witness ==
    /\ analysis # NoAnalysis
    /\ analysis.engine = "basic"
    /\ Len(analysis.result.detectedIssues) = 4
    /\ ~SeveritySorted(detectFormIssues(analysis.input))
    /\ analysis.result.detectedIssues # detectFormIssues(analysis.input)

\* C19: for all metric values, detectFormIssuesFromPose returns at most 3
\* issues with at most one issue per issue type, the returned list is
\* non-decreasing in severity rank, and when a fourth candidate issue is
\* dropped it is no more severe than any issue that is kept.
C19_TopThreePoseIssues ==
    (analysis # NoAnalysis /\ analysis.engine = "lightweight_ml") =>
        LET issues == analysis.result.detectedIssues
            candidates == PoseIssues(analysis.input)
            kept == {issues[i] : i \in 1..Len(issues)}
            dropped == {candidates[i] : i \in 1..Len(candidates)} \ kept
        IN  /\ Len(issues) <= 3
            /\ Len(issues) = Min(3, Len(candidates))
            /\ \A i, j \in 1..Len(issues) : issues[i].type = issues[j].type => i = j
            /\ SeveritySorted(issues)
            /\ kept \subseteq {candidates[i] : i \in 1..Len(candidates)}
            /\ \A d \in dropped : \A k \in kept :
                  severityOrder(d.severity) >= severityOrder(k.severity)

\* C19 witness: four candidates, out of severity order as pushed, and the
\* one dropped is a minor issue that was not pushed last.
C19_Witness ==
    /\ analysis # NoAnalysis
    /\ analysis.engine = "lightweight_ml"
    /\ Len(PoseIssues(analysis.input)) = 4
    /\ Len(analysis.result.detectedIssues) = 3
    /\ PoseIssues(analysis.input)[2].severity = "minor"
    /\ \A i \in 1..3 : analysis.result.detectedIssues[i].severity # "minor"

----------------------------------------------------------------------------
(* Part 5: the feedback generator                                          *)
(*   src/unnamed/part_003 (FeedbackGenerator)  generateFeedback,           *)
(*   createRecommendations                                                 *)
(* SpecFeedback is generateFeedback called, for every tier, on a           *)
(* FormAnalysisResult that its caller holds: any score, and any list of    *)
(* issues of distinct types in any order. The texts of a recommendation    *)
(* (explanation, drills, whyItMatters) are fixed per issue and tier and    *)
(* are left out, as are overallMessage, encouragement and nextSteps.       *)

\* the FormIssue values
FormIssues == [type : FormIssueType, severity : FormIssueSeverity]

\* the detectedIssues arrays a caller can hold: one issue per type at most
IssueLists ==
    {issues \in UNION {[1..n -> FormIssues] : n \in 0..Cardinality(FormIssueType)} :
        \A i, j \in 1..Len(issues) : issues[i].type = issues[j].type => i = j}

\* interface FeedbackRecommendation
FeedbackRecommendation(priority, issue) == [priority |-> priority, issue |-> issue]

\* Faulty variant of createRecommendations: the caller's array is sorted.
createRecommendations_SortsInPlace(issues, maxCount, tier) ==
    LET sortedIssues == SortBySeverity(issues)
        topIssues == Slice(sortedIssues, maxCount)
    IN  [recommendations |->
             [index \in 1..Len(topIssues) |-> FeedbackRecommendation(index, topIssues[index])],
         issues |-> sortedIssues]

\* createRecommendations(issues, maxCount, tier): the recommendations
\* returned, priority = index + 1 counted from 0, and the array `issues` as
\* the call leaves it: [...issues] at line 120 copies before sorting
createRecommendations(issues, maxCount, tier) ==
    LET sortedIssues == SortBySeverity(issues)
        topIssues == Slice(sortedIssues, maxCount)
    IN  [recommendations |->
             [index \in 1..Len(topIssues) |-> FeedbackRecommendation(index, topIssues[index])],
         issues |-> issues]

\* const maxRecommendations = analysisTier === 'basic' ? 2 : 3
maxRecommendations(analysisTier) == IF analysisTier = "basic" THEN 2 ELSE 3

\* generateFeedback(analysisResult, analysisTier) on the result the caller
\* holds; `given` remembers the array as it was passed
GenerateFeedback(analysisTier) ==
    /\ analysis # NoAnalysis
    /\ LET detectedIssues == analysis.result.detectedIssues
           made == createRecommendations(detectedIssues,
                                         maxRecommendations(analysisTier), analysisTier)
       IN  /\ feedback' = [tier |-> analysisTier,
                           given |-> detectedIssues,
                           formScore |-> analysis.result.overallScore,
                           recommendations |-> made.recommendations]
           /\ analysis' = [analysis EXCEPT !.result.detectedIssues = made.issues]
    /\ UNCHANGED offAnalysisVars

\* The caller holds a FormAnalysisResult; generateFeedback has not been called.
InitFeedback ==
    /\ analysis \in {Analysis("caller", NoAnalysis,
                              FormAnalysisResult(score, issues,
                                                 BiomechanicalMetrics(100, 100, 100, 100))) :
                        score \in FormScore, issues \in IssueLists}
    /\ feedback = NoFeedback
    /\ Part1Unused
    /\ CacheUnused
    /\ PipelineUnused
    /\ ProgressUnused
    /\ PhasesUnused

NextFeedback == \E analysisTier \in AnalysisTier : GenerateFeedback(analysisTier)

SpecFeedback == InitFeedback /\ [][NextFeedback]_vars

----------------------------------------------------------------------------
(* Properties of generateFeedback, checked under SpecFeedback              *)

\* C20: generateFeedback(result, tier) returns exactly min(n, cap)
\* recommendations, n the number of detected issues and cap 2 for tier basic
\* and 3 for every other tier; their priorities are exactly 1..N in list
\* order, severity rank is non-decreasing with priority, every omitted issue
\* is no more severe than every included one, and the input result's
\* detectedIssues list is left in its original order.
C20_TopRecommendations ==
    feedback # NoFeedback =>
        LET recs == feedback.recommendations
            cap == IF feedback.tier = "basic" THEN 2 ELSE 3
            given == {feedback.given[i] : i \in 1..Len(feedback.given)}
            included == {recs[i].issue : i \in 1..Len(recs)}
        IN  /\ Len(recs) = Min(Len(feedback.given), cap)
            /\ \A i \in 1..Len(recs) : recs[i].priority = i
            /\ SeveritySorted([i \in 1..Len(recs) |-> recs[i].issue])
            /\ included \subseteq given
            /\ Cardinality(included) = Len(recs)
            /\ \A omitted \in given \ included : \A issue \in included :
                  severityOrder(omitted.severity) >= severityOrder(issue.severity)
            /\ analysis.result.detectedIssues = feedback.given

\* C20 witness: four issues given out of severity order to the basic tier;
\* two recommendations came back, the two omitted issues among them a
\* moderate one given first.
C20_Witness ==
    /\ feedback # NoFeedback
    /\ feedback.tier = "basic"
    /\ Len(feedback.given) = 4
    /\ ~SeveritySorted(feedback.given)
    /\ Len(feedback.recommendations) = 2
    /\ feedback.given[1].severity = "moderate"
    /\ feedback.recommendations[1].issue.severity = "major"
    /\ feedback.recommendations[2].issue.severity = "major"
    /\ analysis.result.detectedIssues = feedback.given

----------------------------------------------------------------------------
(* Part 6: the adaptive recommendation system                              *)
(*   src/src/feedback/AdaptiveRecommendationSystem.ts                      *)
(*     analyzeIssueProgress, buildProgressSummary,                         *)
(*     generateProgressAwareFeedback, calculateAdaptivePriority            *)
(* A session is its position in the history (its timestamp), its formScore *)
(* and its detectedIssues. Averages are kept as exact fractions; the       *)
(* comparisons of the code are made on them by cross-multiplication.       *)
(* SpecProgress is a user recording one session after another, the summary *)
(* being built from the history at any time.                               *)

\* Longest session history of SpecProgress.
MaxSessions == 7

\* What the sample sessions contain: a session without issues, and sessions
\* with elbow_flare at each severity, two of them with a second issue; the
\* scores differ.
SampleSessions ==
    {[formScore |-> "A", detectedIssues |-> <<>>],
     [formScore |-> "C", detectedIssues |-> <<FormIssue("elbow_flare", "major"),
                                              FormIssue("wrist_angle", "moderate")>>],
     [formScore |-> "F", detectedIssues |-> <<FormIssue("elbow_flare", "moderate")>>],
     [formScore |-> "B", detectedIssues |-> <<FormIssue("stance", "minor"),
                                              FormIssue("elbow_flare", "minor")>>]}

\* interface ShootingSession, the fields the progress analysis reads
ShootingSession(timestamp, sample) ==
    [timestamp |-> timestamp, formScore |-> sample.formScore,
     detectedIssues |-> sample.detectedIssues]

\* calculateSeverityScore(severity)
calculateSeverityScore(severity) ==
    CASE severity = "major" -> 0
      [] severity = "moderate" -> 50
      [] severity = "minor" -> 75

\* array.reduce((sum, s) => sum + s, 0)
RECURSIVE SumSeq(_)
SumSeq(s) == IF s = <<>> THEN 0 ELSE Head(s) + SumSeq(Tail(s))

\* Math.max
Max(a, b) == IF a > b THEN a ELSE b

\* array.slice(-n)
LastN(s, n) == SubSeq(s, Max(1, Len(s) - n + 1), Len(s))

\* session.detectedIssues.some(issue => issue.type === issueType)
HasIssue(session, issueType) ==
    \E i \in 1..Len(session.detectedIssues) : session.detectedIssues[i].type = issueType

\* session.detectedIssues.find(i => i.type === issueType), for a session that has one
FindIssue(session, issueType) ==
    LET first == CHOOSE i \in 1..Len(session.detectedIssues) :
                     /\ session.detectedIssues[i].type = issueType
                     /\ \A j \in 1..(i - 1) : session.detectedIssues[j].type # issueType
    IN  session.detectedIssues[first]

\* Faulty variant of SeverityTrend: the halves are compared the other way round.
SeverityTrend_Reversed(severityScores) ==
    LET midpoint == Len(severityScores) \div 2
        firstHalf == SubSeq(severityScores, 1, midpoint)
        secondHalf == SubSeq(severityScores, midpoint + 1, Len(severityScores))
        firstCount == Max(1, midpoint)
        secondCount == Max(1, Len(severityScores) - midpoint)
        scaled == SumSeq(firstHalf) * secondCount - SumSeq(secondHalf) * firstCount
    IN  IF scaled > 15 * firstCount * secondCount THEN "improving"
        ELSE IF scaled < (-15) * firstCount * secondCount THEN "worsening"
        ELSE "stable"

\* analyzeIssueProgress, lines 91-108: improvement = secondHalfAvg -
\* firstHalfAvg, compared with 15 and -15 after multiplying by both counts
SeverityTrend(severityScores) ==
    LET midpoint == Len(severityScores) \div 2
        firstHalf == SubSeq(severityScores, 1, midpoint)
        secondHalf == SubSeq(severityScores, midpoint + 1, Len(severityScores))
        firstCount == Max(1, midpoint)
        secondCount == Max(1, Len(severityScores) - midpoint)
        scaled == SumSeq(secondHalf) * firstCount - SumSeq(firstHalf) * secondCount
    IN  IF scaled > 15 * firstCount * secondCount THEN "improving"
        ELSE IF scaled < (-15) * firstCount * secondCount THEN "worsening"
        ELSE "stable"

\* analyzeIssueProgress returned null
NoPattern == [none |-> TRUE]

\* a quotient kept exact
Fraction(num, den) == [num |-> num, den |-> den]

\* analyzeIssueProgress(issueType, sessions): IssueProgressPattern | null
analyzeIssueProgress(issueType, history) ==
    LET sessionsWithIssue == SelectSeq(history, LAMBDA session : HasIssue(session, issueType))
        severityScores ==
            [i \in 1..Len(sessionsWithIssue) |->
                calculateSeverityScore(FindIssue(sessionsWithIssue[i], issueType).severity)]
        recentSessions == LastN(history, 2)
    IN  IF Len(sessionsWithIssue) = 0 THEN NoPattern
        ELSE [issueType |-> issueType,
              firstDetected |-> sessionsWithIssue[1].timestamp,
              lastDetected |-> sessionsWithIssue[Len(sessionsWithIssue)].timestamp,
              occurrenceCount |-> Len(sessionsWithIssue),
              severityTrend |-> SeverityTrend(severityScores),
              averageSeverityScore |-> Fraction(SumSeq(severityScores), Len(severityScores)),
              resolved |-> ~\E i \in 1..Len(recentSessions) :
                               HasIssue(recentSessions[i], issueType)]

\* const scoreValues = { A: 95, B: 85, C: 75, D: 65, F: 50 }
scoreValues(formScore) ==
    CASE formScore = "A" -> 95
      [] formScore = "B" -> 85
      [] formScore = "C" -> 75
      [] formScore = "D" -> 65
      [] formScore = "F" -> 50

\* const allIssueTypes
allIssueTypes == <<"elbow_flare", "wrist_angle", "stance", "follow_through">>

\* interface UserProgressSummary; userId and recommendationHistory decide nothing
UserProgressSummary(total, average, improvement, persistent, resolved, new) ==
    [totalSessions |-> total, averageScore |-> average, scoreImprovement |-> improvement,
     persistentIssues |-> persistent, resolvedIssues |-> resolved, newIssues |-> new]

\* Faulty variant of ScoreImprovement: the sessions before the window count
\* only when there are at least five of them.
ScoreImprovement_NeedsFivePrevious(scores) ==
    LET recentScores == LastN(scores, 5)
        previousScores == SubSeq(scores, 1, Len(scores) - 5)
    IN  IF Len(previousScores) >= 5
        THEN Fraction(SumSeq(recentScores) * Len(previousScores)
                          - SumSeq(previousScores) * Len(recentScores),
                      Len(recentScores) * Len(previousScores))
        ELSE Fraction(0, Len(recentScores))

\* buildProgressSummary, lines 153-160: recentAvg - previousAvg as an exact
\* fraction; previousAvg is recentAvg when no score precedes the last five
ScoreImprovement(scores) ==
    LET recentScores == LastN(scores, 5)
        previousScores == SubSeq(scores, 1, Len(scores) - 5)
    IN  IF Len(previousScores) > 0
        THEN Fraction(SumSeq(recentScores) * Len(previousScores)
                          - SumSeq(previousScores) * Len(recentScores),
                      Len(recentScores) * Len(previousScores))
        ELSE Fraction(0, Len(recentScores))

\* Faulty variant of buildProgressSummary: persistent issues are taken from
\* all patterns, resolved ones included.
buildProgressSummary_PersistentFromAll(history) ==
    IF Len(history) = 0
    THEN UserProgressSummary(0, Fraction(0, 1), Fraction(0, 1), <<>>, <<>>, <<>>)
    ELSE
      LET scores == [i \in 1..Len(history) |-> scoreValues(history[i].formScore)]
          analysed == [i \in 1..Len(allIssueTypes) |->
                          analyzeIssueProgress(allIssueTypes[i], history)]
          issuePatterns == SelectSeq(analysed, LAMBDA pattern : pattern # NoPattern)
          resolvedIssues == SelectSeq(issuePatterns, LAMBDA p : p.resolved)
          activeIssues == SelectSeq(issuePatterns, LAMBDA p : ~p.resolved)
          persistentIssues == SelectSeq(issuePatterns, LAMBDA p : p.occurrenceCount >= 3)
          newIssues == SelectSeq(activeIssues, LAMBDA p : p.occurrenceCount <= 2)
      IN  UserProgressSummary(Len(history), Fraction(SumSeq(scores), Len(scores)),
                              ScoreImprovement(scores),
                              persistentIssues, resolvedIssues, newIssues)

\* buildProgressSummary(userId, sessions)
buildProgressSummary(history) ==
    IF Len(history) = 0
    THEN UserProgressSummary(0, Fraction(0, 1), Fraction(0, 1), <<>>, <<>>, <<>>)
    ELSE
      LET scores == [i \in 1..Len(history) |-> scoreValues(history[i].formScore)]
          analysed == [i \in 1..Len(allIssueTypes) |->
                          analyzeIssueProgress(allIssueTypes[i], history)]
          issuePatterns == SelectSeq(analysed, LAMBDA pattern : pattern # NoPattern)
          resolvedIssues == SelectSeq(issuePatterns, LAMBDA p : p.resolved)
          activeIssues == SelectSeq(issuePatterns, LAMBDA p : ~p.resolved)
          persistentIssues == SelectSeq(activeIssues, LAMBDA p : p.occurrenceCount >= 3)
          newIssues ==
              SelectSeq(activeIssues,
                        LAMBDA p : p.occurrenceCount <= 2
                                   /\ ~\E i \in 1..Len(persistentIssues) : persistentIssues[i] = p)
      IN  UserProgressSummary(Len(history), Fraction(SumSeq(scores), Len(scores)),
                              ScoreImprovement(scores),
                              persistentIssues, resolvedIssues, newIssues)

\* The user records one more session.
AddSession(sample) ==
    /\ Len(sessions) < MaxSessions
    /\ sessions' = Append(sessions, ShootingSession(Len(sessions) + 1, sample))
    /\ summary' = NoSummary
    /\ UNCHANGED <<currentFeedback, enhanced, priorityCall>>
    /\ UNCHANGED offProgressVars

\* buildProgressSummary(userId, sessions) on the history so far
BuildProgressSummary ==
    /\ summary = NoSummary
    /\ summary' = buildProgressSummary(sessions)
    /\ UNCHANGED <<sessions, currentFeedback, enhanced, priorityCall>>
    /\ UNCHANGED offProgressVars

\* A user without sessions.
InitProgress ==
    /\ sessions = <<>>
    /\ summary = NoSummary
    /\ currentFeedback = NoFeedback
    /\ enhanced = NoFeedback
    /\ priorityCall = NoPriorityCall
    /\ Part1Unused
    /\ CacheUnused
    /\ PipelineUnused
    /\ AnalysisUnused
    /\ PhasesUnused

NextProgress ==
    \/ \E sample \in SampleSessions : AddSession(sample)
    \/ BuildProgressSummary

SpecProgress == InitProgress /\ [][NextProgress]_vars

----------------------------------------------------------------------------
(* Properties of the progress analysis, checked under SpecProgress         *)

\* the patterns of a summary, whichever list they are in
PatternsOf(s) ==
    {s.persistentIssues[i] : i \in 1..Len(s.persistentIssues)}
        \cup {s.resolvedIssues[i] : i \in 1..Len(s.resolvedIssues)}
        \cup {s.newIssues[i] : i \in 1..Len(s.newIssues)}

\* the severities with which an issue type occurs in the history, oldest first
SeveritiesOf(issueType) ==
    LET with == SelectSeq(sessions, LAMBDA session : HasIssue(session, issueType))
    IN  [i \in 1..Len(with) |->
            (CHOOSE issue \in {with[i].detectedIssues[k] : k \in 1..Len(with[i].detectedIssues)} :
                 issue.type = issueType).severity]

\* sum of the severity scores of positions from..to of a severity list
RECURSIVE ScoreSum(_, _, _)
ScoreSum(severities, from, to) ==
    IF from > to THEN 0
    ELSE calculateSeverityScore(severities[from]) + ScoreSum(severities, from + 1, to)

\* the trend C21 describes for a severity list of n occurrences: the mean
\* of the first floor(n/2) against the mean of the rest (an empty first
\* half, n = 1, counting as mean 0)
ClaimedTrend(severities) ==
    LET n == Len(severities)
        half == n \div 2
        firstSum == ScoreSum(severities, 1, half)
        restSum == ScoreSum(severities, half + 1, n)
        firstN == IF half = 0 THEN 1 ELSE half
        restN == n - half
    IN  IF restSum * firstN - firstSum * restN > 15 * firstN * restN THEN "improving"
        ELSE IF restSum * firstN - firstSum * restN < (-15) * firstN * restN THEN "worsening"
        ELSE "stable"

\* C21: for a time-ordered history in which an issue type occurs n times,
\* analyzeIssueProgress sets severityTrend by comparing the mean severity
\* score of the first floor(n/2) occurrences with the mean of the remaining
\* ones: improving iff second - first > 15, worsening iff second - first <
\* -15, otherwise stable; sessions without the issue do not affect the
\* trend; [major, major, moderate, minor] gives improving and [minor, minor,
\* moderate, major] gives worsening.
C21_TrendComparesHalves ==
    summary # NoSummary =>
        \A pattern \in PatternsOf(summary) :
            LET severities == SeveritiesOf(pattern.issueType)
            IN  /\ pattern.occurrenceCount = Len(severities)
                /\ pattern.severityTrend = ClaimedTrend(severities)
                /\ severities = <<"major", "major", "moderate", "minor">>
                      => pattern.severityTrend = "improving"
                /\ severities = <<"minor", "minor", "moderate", "major">>
                      => pattern.severityTrend = "worsening"

\* C21 witness: elbow_flare occurred as major, major, moderate, minor with
\* sessions without it in between, and its trend is improving.
C21_Witness ==
    /\ summary # NoSummary
    /\ SeveritiesOf("elbow_flare") = <<"major", "major", "moderate", "minor">>
    /\ Len(sessions) > 4
    /\ \E pattern \in PatternsOf(summary) :
          pattern.issueType = "elbow_flare" /\ pattern.severityTrend = "improving"

\* C21 witness of the reversed example: minor, minor, moderate, major is worsening.
C21_WitnessWorsening ==
    /\ summary # NoSummary
    /\ SeveritiesOf("elbow_flare") = <<"minor", "minor", "moderate", "major">>
    /\ \E pattern \in PatternsOf(summary) :
          pattern.issueType = "elbow_flare" /\ pattern.severityTrend = "worsening"

\* how many entries of a list of patterns are about an issue type
EntriesFor(patterns, issueType) ==
    Cardinality({i \in 1..Len(patterns) : patterns[i].issueType = issueType})

\* the number of sessions of the history in which an issue type occurs
Occurrences(issueType) ==
    Cardinality({i \in 1..Len(sessions) : HasIssue(sessions[i], issueType)})

\* the issue type occurs in one of the two most recent sessions
InLastTwo(issueType) ==
    \E i \in 1..Len(sessions) : i > Len(sessions) - 2 /\ HasIssue(sessions[i], issueType)

\* C22: for every session history, buildProgressSummary places each issue
\* type that occurs in at least one session in exactly one of the three
\* lists: resolvedIssues iff the type is absent from both of the two most
\* recent sessions, otherwise persistentIssues iff its occurrenceCount >= 3,
\* otherwise newIssues (occurrenceCount <= 2); a type that never occurs is
\* in no list, and the three lists are pairwise disjoint.
C22_ThreeListsPartition ==
    summary # NoSummary =>
        \A issueType \in FormIssueType :
            LET inResolved == EntriesFor(summary.resolvedIssues, issueType)
                inPersistent == EntriesFor(summary.persistentIssues, issueType)
                inNew == EntriesFor(summary.newIssues, issueType)
            IN  /\ inResolved + inPersistent + inNew
                      = (IF Occurrences(issueType) >= 1 THEN 1 ELSE 0)
                /\ Occurrences(issueType) >= 1 =>
                      /\ inResolved = 1 <=> ~InLastTwo(issueType)
                      /\ inPersistent = 1 <=>
                            (InLastTwo(issueType) /\ Occurrences(issueType) >= 3)
                      /\ inNew = 1 <=>
                            (InLastTwo(issueType) /\ Occurrences(issueType) <= 2)
                /\ \A pattern \in PatternsOf(summary) :
                      pattern.issueType = issueType
                          => pattern.occurrenceCount = Occurrences(issueType)

\* C22 witness: a summary with one resolved, one persistent and one new
\* issue type, the resolved one having been seen at least three times.
C22_Witness ==
    /\ summary # NoSummary
    /\ Len(summary.resolvedIssues) >= 1
    /\ Len(summary.persistentIssues) >= 1
    /\ Len(summary.newIssues) >= 1
    /\ \E i \in 1..Len(summary.resolvedIssues) :
          summary.resolvedIssues[i].occurrenceCount >= 3

\* sum of the score values of sessions from..to of the history
RECURSIVE ScoreTotal(_, _)
ScoreTotal(from, to) ==
    IF from > to THEN 0 ELSE scoreValues(sessions[from].formScore) + ScoreTotal(from + 1, to)

\* the number of sessions before the window of the last five
Preceding == IF Len(sessions) > 5 THEN Len(sessions) - 5 ELSE 0

\* scoreImprovement is mean(last five) - mean(sessions before them)
ImprovementIsMeanDifference ==
    LET recentN == Len(sessions) - Preceding
        recentSum == ScoreTotal(Preceding + 1, Len(sessions))
        previousSum == ScoreTotal(1, Preceding)
    IN  summary.scoreImprovement.num * (recentN * Preceding)
            = (recentSum * Preceding - previousSum * recentN) * summary.scoreImprovement.den

\* C23 as stated: scoreImprovement is the mean score of the last 5 sessions
\* minus the mean score of all sessions before that window, and whenever
\* fewer than 5 sessions precede the window it is 0.
C23_Original_ZeroWhenFewerThanFivePrecede ==
    (summary # NoSummary /\ Len(sessions) >= 1) =>
        /\ summary.scoreImprovement.den > 0
        /\ IF Preceding < 5 THEN summary.scoreImprovement.num = 0
           ELSE ImprovementIsMeanDifference

\* C23 as amended: scoreImprovement is the mean score (A=95, B=85, C=75,
\* D=65, F=50) of the last 5 sessions minus the mean score of all sessions
\* before that window as soon as one session precedes it; it is 0 only
\* when no session precedes the window (a history of at most 5 sessions).
C23_ScoreImprovement ==
    (summary # NoSummary /\ Len(sessions) >= 1) =>
        /\ summary.scoreImprovement.den > 0
        /\ summary.totalSessions = Len(sessions)
        /\ IF Preceding = 0 THEN summary.scoreImprovement.num = 0
           ELSE ImprovementIsMeanDifference

\* C23 witness: one F session followed by better ones: one session precedes
\* the window and the improvement is not 0.
C23_Witness ==
    /\ summary # NoSummary
    /\ Len(sessions) = 6
    /\ sessions[1].formScore = "F"
    /\ \A i \in 2..6 : sessions[i].formScore = "A"
    /\ summary.scoreImprovement = Fraction(45 * 5, 5)

\* an issue type has the same severity in every session in which it occurs
ConstantSeverity(issueType) ==
    LET severities == SeveritiesOf(issueType)
    IN  \A i, j \in 1..Len(severities) : severities[i] = severities[j]

\* C29: if an issue type has the same severity in every session in which
\* it occurs, analyzeIssueProgress reports severityTrend = stable, for
\* every number of occurrences n >= 1 (an issue seen exactly once included)
\* and every severity.
C29_ConstantSeverityIsStable ==
    summary # NoSummary =>
        \A pattern \in PatternsOf(summary) :
            ConstantSeverity(pattern.issueType) => pattern.severityTrend = "stable"

\* C29, what the code does: a constant severity is stable from two
\* occurrences on; a single occurrence is stable only when it is major, and
\* improving when it is moderate or minor.
C29_CodeStableFromTwoOccurrences ==
    summary # NoSummary =>
        \A pattern \in PatternsOf(summary) :
            ConstantSeverity(pattern.issueType) =>
                IF pattern.occurrenceCount >= 2
                       \/ SeveritiesOf(pattern.issueType) = <<"major">>
                THEN pattern.severityTrend = "stable"
                ELSE pattern.severityTrend = "improving"

\* C29: an issue seen exactly once, as moderate, is reported as improving.
C29_SingleOccurrenceImproving ==
    /\ summary # NoSummary
    /\ \E pattern \in PatternsOf(summary) :
          /\ SeveritiesOf(pattern.issueType) = <<"moderate">>
          /\ pattern.occurrenceCount = 1
          /\ pattern.severityTrend = "improving"

----------------------------------------------------------------------------
(* generateProgressAwareFeedback, checked under SpecAware: the caller      *)
(* holds any base feedback and any progress summary (the function is       *)
(* exported and takes the summary as an argument), calls once. A message   *)
(* is the sequence of its sentences.                                       *)

\* Largest totalSessions of a caller-supplied summary.
MaxTotalSessions == 4

\* interface IssueProgressPattern, the dates and the average fixed
IssueProgressPattern(issueType, occurrenceCount, severityTrend, resolved) ==
    [issueType |-> issueType, firstDetected |-> 1, lastDetected |-> occurrenceCount,
     occurrenceCount |-> occurrenceCount, severityTrend |-> severityTrend,
     averageSeverityScore |-> Fraction(50, 1), resolved |-> resolved]

\* one sentence of a message; `about` lists what a celebration names
Sentence(kind, about) == [sentence |-> kind, about |-> about]

\* interface SessionFeedback, the fields generateProgressAwareFeedback touches
SessionFeedback(overallMessage, recommendations, encouragement) ==
    [overallMessage |-> overallMessage, recommendations |-> recommendations,
     encouragement |-> encouragement]

\* the base feedbacks a caller passes: without recommendation, and with
\* one for elbow_flare or for stance
BaseFeedbacks ==
    {SessionFeedback(<<Sentence("Good form", <<>>)>>, recommendations,
                     <<Sentence("Keep it up", <<>>)>>) :
        recommendations \in
            {<<>>,
             <<FeedbackRecommendation(1, FormIssue("elbow_flare", "moderate"))>>,
             <<FeedbackRecommendation(1, FormIssue("stance", "minor"))>>}}

\* the progress summaries a caller passes
ProgressSummaries ==
    {UserProgressSummary(total, Fraction(80, 1), Fraction(improvement, 1),
                         persistent, resolved, new) :
        total \in 0..MaxTotalSessions,
        improvement \in {-6, -5, 0, 5, 6},
        persistent \in {<<>>,
                        <<IssueProgressPattern("elbow_flare", 3, "improving", FALSE)>>,
                        <<IssueProgressPattern("elbow_flare", 4, "stable", FALSE)>>},
        resolved \in {<<>>,
                      <<IssueProgressPattern("stance", 3, "improving", TRUE)>>,
                      <<IssueProgressPattern("stance", 3, "improving", TRUE),
                        IssueProgressPattern("follow_through", 1, "stable", TRUE)>>},
        new \in {<<>>, <<IssueProgressPattern("wrist_angle", 1, "stable", FALSE)>>}}

\* issueType.replace('_', ' '): the first underscore becomes a space
ReplaceUnderscore(issueType) ==
    CASE issueType = "elbow_flare" -> "elbow flare"
      [] issueType = "wrist_angle" -> "wrist angle"
      [] issueType = "stance" -> "stance"
      [] issueType = "follow_through" -> "follow through"

\* array.find(p => p.issueType === issueType) !== undefined
FindsPattern(patterns, issueType) ==
    \E i \in 1..Len(patterns) : patterns[i].issueType = issueType

\* array.find(p => p.issueType === issueType), when there is one
FindPattern(patterns, issueType) ==
    patterns[CHOOSE i \in 1..Len(patterns) :
                 /\ patterns[i].issueType = issueType
                 /\ \A j \in 1..(i - 1) : patterns[j].issueType # issueType]

\* generateAdaptiveRecommendations(currentFeedback, progressSummary)
generateAdaptiveRecommendations(base, progressSummary) ==
    [k \in 1..Len(base.recommendations) |->
        LET rec == base.recommendations[k]
            issueType == rec.issue.type
            isPersistent == FindsPattern(progressSummary.persistentIssues, issueType)
            isNew == FindsPattern(progressSummary.newIssues, issueType)
            wasResolved == FindsPattern(progressSummary.resolvedIssues, issueType)
            progressNote ==
                IF wasResolved THEN "returned"
                ELSE IF isPersistent
                     THEN LET trend == FindPattern(progressSummary.persistentIssues,
                                                   issueType).severityTrend
                          IN  IF trend = "improving" THEN "making progress"
                              ELSE IF trend = "worsening" THEN "needs more attention"
                              ELSE "vary your practice"
                ELSE IF isNew THEN "new area"
                ELSE "undefined"
        IN  [priority |-> rec.priority, issue |-> rec.issue, isNew |-> isNew,
             isPersistent |-> isPersistent, progressNote |-> progressNote]]

\* generateProgressAwareFeedback(currentFeedback, progressSummary)
generateProgressAwareFeedback(base, progressSummary) ==
    LET improvement == progressSummary.scoreImprovement
        trendSentence ==
            IF progressSummary.totalSessions >= 3
            THEN IF improvement.num > 5 * improvement.den
                 THEN <<Sentence("improving nicely", <<>>)>>
                 ELSE IF improvement.num < (-5) * improvement.den
                      THEN <<Sentence("some regression", <<>>)>>
                      ELSE <<>>
            ELSE <<>>
        resolvedTypes ==
            [i \in 1..Len(progressSummary.resolvedIssues) |->
                ReplaceUnderscore(progressSummary.resolvedIssues[i].issueType)]
        celebration ==
            IF Len(progressSummary.resolvedIssues) > 0
            THEN <<Sentence("Great job resolving", resolvedTypes)>>
            ELSE <<>>
        improvingCount ==
            Len(SelectSeq(progressSummary.persistentIssues,
                          LAMBDA p : p.severityTrend = "improving"))
        payingOff ==
            IF Len(progressSummary.persistentIssues) > 0 /\ improvingCount > 0
            THEN <<Sentence("practice is paying off", <<>>)>>
            ELSE <<>>
    IN  SessionFeedback(base.overallMessage \o trendSentence \o celebration,
                        generateAdaptiveRecommendations(base, progressSummary),
                        base.encouragement \o payingOff)

\* The caller calls generateProgressAwareFeedback(currentFeedback, progressSummary).
GenerateProgressAwareFeedback ==
    /\ enhanced = NoFeedback
    /\ enhanced' = generateProgressAwareFeedback(currentFeedback, summary)
    /\ UNCHANGED <<sessions, summary, currentFeedback, priorityCall>>
    /\ UNCHANGED offProgressVars

\* The caller holds a base feedback and a progress summary.
InitAware ==
    /\ sessions = <<>>
    /\ summary \in ProgressSummaries
    /\ currentFeedback \in BaseFeedbacks
    /\ enhanced = NoFeedback
    /\ priorityCall = NoPriorityCall
    /\ Part1Unused
    /\ CacheUnused
    /\ PipelineUnused
    /\ AnalysisUnused
    /\ PhasesUnused

NextAware == GenerateProgressAwareFeedback

SpecAware == InitAware /\ [][NextAware]_vars

\* a message holds a sentence of a kind
Says(message, kind) == \E i \in 1..Len(message) : message[i].sentence = kind

C24_CodeGatesTrendSentenceOnly ==
    enhanced # NoFeedback =>
        /\ (Says(enhanced.overallMessage, "improving nicely")
                \/ Says(enhanced.overallMessage, "some regression"))
              => summary.totalSessions >= 3
        /\ Says(enhanced.overallMessage, "Great job resolving")
              <=> Len(summary.resolvedIssues) > 0

\* C24: a summary of 2 sessions with a resolved issue gets the celebration.
C24_CelebrationBelowThreeSessions ==
    /\ enhanced # NoFeedback
    /\ summary.totalSessions = 2
    /\ Says(enhanced.overallMessage, "Great job resolving")
    /\ enhanced.overallMessage # currentFeedback.overallMessage

\* C24, under SpecProgress: a summary that buildProgressSummary made of
\* fewer than 3 sessions has no resolved issue.
C24_BuiltSummaryResolvesFromThreeSessions ==
    (summary # NoSummary /\ summary.totalSessions < 3) => summary.resolvedIssues = <<>>

----------------------------------------------------------------------------
(* calculateAdaptivePriority, checked under SpecPriority: the caller makes *)
(* one call after another; the state is the last call, so that two calls   *)
(* on the same issue are compared over one step.                           *)

\* Largest occurrenceCount of a pattern passed to calculateAdaptivePriority.
MaxOccurrence == 6

\* the patterns a caller passes for an issue type, null included
PatternsFor(issueType) ==
    {NoPattern} \cup
        {IssueProgressPattern(issueType, occurrenceCount, severityTrend, FALSE) :
            occurrenceCount \in 1..MaxOccurrence,
            severityTrend \in {"improving", "stable", "worsening"}}

\* const severityPriority = { major: 3, moderate: 2, minor: 1 }
severityPriority(severity) ==
    CASE severity = "major" -> 3
      [] severity = "moderate" -> 2
      [] severity = "minor" -> 1

\* Faulty variant of calculateAdaptivePriority: an improving issue gains priority.
calculateAdaptivePriority_ImprovingRaises(issue, pattern) ==
    LET base == severityPriority(issue.severity)
        worsening == IF pattern # NoPattern /\ pattern.severityTrend = "worsening" THEN 2 ELSE 0
        veryPersistent == IF pattern # NoPattern /\ pattern.occurrenceCount >= 5 THEN 1 ELSE 0
        improving == IF pattern # NoPattern /\ pattern.severityTrend = "improving" THEN 1 ELSE 0
    IN  Max(1, base + worsening + veryPersistent + improving)

\* calculateAdaptivePriority(issue, pattern, progressSummary); the code
\* never reads progressSummary
calculateAdaptivePriority(issue, pattern) ==
    LET base == severityPriority(issue.severity)
        worsening == IF pattern # NoPattern /\ pattern.severityTrend = "worsening" THEN 2 ELSE 0
        veryPersistent == IF pattern # NoPattern /\ pattern.occurrenceCount >= 5 THEN 1 ELSE 0
        improving == IF pattern # NoPattern /\ pattern.severityTrend = "improving" THEN 1 ELSE 0
    IN  Max(1, base + worsening + veryPersistent - improving)

\* One call calculateAdaptivePriority(issue, pattern, progressSummary).
CalculateAdaptivePriority(issue, pattern) ==
    /\ priorityCall' = [issue |-> issue, pattern |-> pattern,
                        priority |-> calculateAdaptivePriority(issue, pattern)]
    /\ UNCHANGED <<sessions, summary, currentFeedback, enhanced>>
    /\ UNCHANGED offProgressVars

\* No call yet.
InitPriority ==
    /\ ProgressUnused
    /\ Part1Unused
    /\ CacheUnused
    /\ PipelineUnused
    /\ AnalysisUnused
    /\ PhasesUnused

NextPriority ==
    \E issue \in FormIssues : \E pattern \in PatternsFor(issue.type) :
        CalculateAdaptivePriority(issue, pattern)

SpecPriority == InitPriority /\ [][NextPriority]_vars

\* a call with the null pattern followed by a call on the same issue with
\* an improving pattern
NullThenImproving ==
    /\ priorityCall # NoPriorityCall
    /\ priorityCall.pattern = NoPattern
    /\ priorityCall'.issue = priorityCall.issue
    /\ priorityCall'.pattern # NoPattern
    /\ priorityCall'.pattern.severityTrend = "improving"

\* C28 as stated: for every issue severity and every improving pattern
\* (any occurrenceCount), the priority with the pattern is strictly lower
\* than the priority with the null pattern.
C28_Original_ImprovingStrictlyLower ==
    [][NullThenImproving => priorityCall'.priority < priorityCall.priority]_vars

\* C28 as amended: the priority is the severity base (major=3, moderate=2,
\* minor=1) +2 if worsening, +1 if occurrenceCount >= 5, -1 if improving,
\* floored at 1; with an improving pattern it is never higher than with the
\* null pattern, and it is strictly lower exactly when the severity is
\* major or moderate and occurrenceCount < 5; otherwise the two are equal.
C28_ImprovingLowerUnlessFlooredOrPersistent ==
    /\ [](priorityCall # NoPriorityCall =>
             LET p == priorityCall.pattern
                 base == CASE priorityCall.issue.severity = "major" -> 3
                           [] priorityCall.issue.severity = "moderate" -> 2
                           [] priorityCall.issue.severity = "minor" -> 1
                 raw == IF p = NoPattern THEN base
                        ELSE base + (IF p.severityTrend = "worsening" THEN 2 ELSE 0)
                                  + (IF p.occurrenceCount >= 5 THEN 1 ELSE 0)
                                  - (IF p.severityTrend = "improving" THEN 1 ELSE 0)
             IN  priorityCall.priority = (IF raw < 1 THEN 1 ELSE raw))
    /\ [][NullThenImproving =>
             IF priorityCall.issue.severity # "minor"
                    /\ priorityCall'.pattern.occurrenceCount < 5
             THEN priorityCall'.priority = priorityCall.priority - 1
             ELSE priorityCall'.priority = priorityCall.priority]_vars

\* C28 witness: the call of the test: a moderate issue with an improving
\* pattern seen 4 times has priority 1, below the 2 of the null pattern.
C28_Witness ==
    /\ priorityCall # NoPriorityCall
    /\ priorityCall.issue = FormIssue("elbow_flare", "moderate")
    /\ priorityCall.pattern = IssueProgressPattern("elbow_flare", 4, "improving", FALSE)
    /\ priorityCall.priority = 1

\* C28: a minor issue with an improving pattern keeps priority 1, the
\* priority it has with the null pattern.
C28_MinorImprovingNotLower ==
    /\ priorityCall # NoPriorityCall
    /\ priorityCall.issue.severity = "minor"
    /\ priorityCall.pattern # NoPattern
    /\ priorityCall.pattern.severityTrend = "improving"
    /\ priorityCall.priority = 1

----------------------------------------------------------------------------
(* Part 7: the shooting phases                                             *)
(*   src/src/ml/LightweightFormAnalyzer.ts, detectShootingPhases           *)
(* A frame is its position in the sequence and what it holds for the right *)
(* wrist; positions count from 1 (the code counts from 0). SpecPhases is   *)
(* one call on any sequence of up to MaxFrames frames.                     *)

\* Longest keypoint-frame sequence.
MaxFrames == 5

\* The y coordinates a right wrist takes in the samples.
WristHeights == 1..3

\* interface KeypointFrame: the RIGHT_WRIST entry of keypoints, which can be missing
KeypointFrame(index, hasWrist, y) == [index |-> index, hasWrist |-> hasWrist, y |-> y]

\* what a frame can hold for the right wrist
WristSamples == {[hasWrist |-> TRUE, y |-> y] : y \in WristHeights}
                    \cup {[hasWrist |-> FALSE, y |-> 0]}

\* the sequences a caller passes, the empty one included
FrameSequences ==
    {[i \in 1..Len(wrists) |-> KeypointFrame(i, wrists[i].hasWrist, wrists[i].y)] :
        wrists \in UNION {[1..n -> WristSamples] : n \in 0..MaxFrames}}

\* rightWrist ? rightWrist.y : 0
wristHeight(frame) == IF frame.hasWrist THEN frame.y ELSE 0

\* the loop of lines 121-129 from position i on: the release position found
RECURSIVE ScanRelease(_, _, _, _)
ScanRelease(wristHeights, i, releaseIdx, maxHeight) ==
    IF i > Len(wristHeights) THEN releaseIdx
    ELSE IF wristHeights[i] < maxHeight
         THEN ScanRelease(wristHeights, i + 1, i, wristHeights[i])
         ELSE ScanRelease(wristHeights, i + 1, releaseIdx, maxHeight)

\* interface ShootingPhases
ShootingPhases(preparation, release, followThrough) ==
    [preparation |-> preparation, release |-> release, followThrough |-> followThrough]

\* detectShootingPhases(keypointFrames) for a non-empty sequence
detectShootingPhases(keypointFrames) ==
    LET wristHeights == [i \in 1..Len(keypointFrames) |-> wristHeight(keypointFrames[i])]
        releaseIdx == ScanRelease(wristHeights, 2, 1, wristHeights[1])
        prepEndIdx == Max(1, releaseIdx - 2)
        releaseEndIdx == Min(Len(keypointFrames), releaseIdx + 2)
    IN  ShootingPhases(SubSeq(keypointFrames, 1, prepEndIdx),
                       SubSeq(keypointFrames, prepEndIdx, releaseEndIdx),
                       SubSeq(keypointFrames, releaseEndIdx, Len(keypointFrames)))

\* throw new Error('No keypoint frames to analyze')
NoFramesError == [error |-> "No keypoint frames to analyze"]

\* detectShootingPhases(keypointFrames) returns the phases
DetectShootingPhases ==
    /\ phases = NoPhases
    /\ Len(frames) # 0
    /\ phases' = detectShootingPhases(frames)
    /\ UNCHANGED frames
    /\ UNCHANGED offPhaseVars

\* detectShootingPhases([]) throws
DetectShootingPhasesThrows ==
    /\ phases = NoPhases
    /\ Len(frames) = 0
    /\ phases' = NoFramesError
    /\ UNCHANGED frames
    /\ UNCHANGED offPhaseVars

\* The caller holds a keypoint-frame sequence.
InitPhases ==
    /\ frames \in FrameSequences
    /\ phases = NoPhases
    /\ Part1Unused
    /\ CacheUnused
    /\ PipelineUnused
    /\ AnalysisUnused
    /\ ProgressUnused

NextPhases ==
    \/ DetectShootingPhases
    \/ DetectShootingPhasesThrows

SpecPhases == InitPhases /\ [][NextPhases]_vars

\* detectShootingPhases returned phases
PhasesReturned == phases # NoPhases /\ phases # NoFramesError

\* the first position at which the shooting-wrist y is minimal
FirstMinimum ==
    CHOOSE r \in 1..Len(frames) :
        /\ \A j \in 1..Len(frames) : wristHeight(frames[r]) <= wristHeight(frames[j])
        /\ \A j \in 1..(r - 1) : wristHeight(frames[j]) > wristHeight(frames[r])

\* the positions of the frames of a phase
PositionsOf(phase) == {phase[i].index : i \in 1..Len(phase)}

\* the positions within 2 of the release position, clipped to the sequence
ReleaseWindow == {i \in 1..Len(frames) : i >= FirstMinimum - 2 /\ i <= FirstMinimum + 2}

\* C30: for every non-empty keypoint-frame sequence, detectShootingPhases
\* picks the release index as the first frame with minimum shooting-wrist y
\* and splits the sequence so that every frame belongs to exactly one phase:
\* release is the frames within 2 positions of the release index (clipped
\* to the sequence), preparation is exactly the frames before that window
\* and follow-through exactly the frames after it, the three phases
\* concatenating to the original sequence.
C30_PhasesPartitionFrames ==
    PhasesReturned =>
        /\ PositionsOf(phases.release) = ReleaseWindow
        /\ PositionsOf(phases.preparation)
              = {i \in 1..Len(frames) : \A w \in ReleaseWindow : i < w}
        /\ PositionsOf(phases.followThrough)
              = {i \in 1..Len(frames) : \A w \in ReleaseWindow : i > w}
        /\ phases.preparation \o phases.release \o phases.followThrough = frames

\* C30, what the code does: the release phase is the window around the
\* first minimum, and the first frame of the window is also the last frame
\* of preparation, the last frame of the window also the first frame of
\* follow-through; no phase is empty and the three hold Len(frames) + 2
\* frames.
C30_CodePhasesShareBoundaryFrames ==
    PhasesReturned =>
        LET lo == Max(1, FirstMinimum - 2)
            hi == Min(Len(frames), FirstMinimum + 2)
        IN  /\ phases.release = SubSeq(frames, lo, hi)
            /\ PositionsOf(phases.release) = ReleaseWindow
            /\ phases.preparation = SubSeq(frames, 1, lo)
            /\ phases.followThrough = SubSeq(frames, hi, Len(frames))
            /\ Len(phases.preparation) + Len(phases.release) + Len(phases.followThrough)
                  = Len(frames) + 2

\* C30: five frames with the wrist highest in the middle one: the window
\* is the whole sequence, and frame 1 is in preparation and in release,
\* frame 5 in release and in follow-through.
C30_BoundaryFrameInTwoPhases ==
    /\ PhasesReturned
    /\ Len(frames) = 5
    /\ FirstMinimum = 3
    /\ Len(phases.release) = 5
    /\ phases.preparation = <<frames[1]>>
    /\ phases.followThrough = <<frames[5]>>

----------------------------------------------------------------------------
(* The router again: bounds, order and validity of the invocations.        *)
(* SpecTerminating is Spec with every strategy invocation terminating: a   *)
(* pending step of routeVideoAnalysis is eventually taken.                 *)

SpecTerminating == Spec /\ WF_vars(Next)

\* the place of a tier in the fallback order, cloud first
TierRank(tier) ==
    CASE tier = "cloud" -> 4
      [] tier = "full_ml" -> 3
      [] tier = "lightweight_ml" -> 2
      [] tier = "basic" -> 1

\* at most 3 invocations, at different tiers in strictly descending
\* fallback order: the first tier, its fallback tier, then basic only when
\* that fallback tier was not basic; only the last one can have succeeded
InvocationsBoundedAndDescending ==
    /\ Len(calls) <= 3
    /\ \A i, j \in 1..Len(calls) : i < j => TierRank(calls[i].tier) > TierRank(calls[j].tier)
    /\ Len(calls) >= 1 => calls[1].tier = currentTier
    /\ Len(calls) >= 2 => calls[2].tier = getFallbackTier(calls[1].tier)
    /\ Len(calls) = 3 => (calls[3].tier = "basic" /\ calls[2].tier # "basic")
    /\ \A i \in 1..(Len(calls) - 1) : ~calls[i].ok

\* the call has ended in exactly one of a returned result and a raised error
EndedOneWay ==
    /\ pc = "returned" <=> result # NoResult
    /\ pc = "thrown" <=> raised # NoError
    /\ ~(result # NoResult /\ raised # NoError)

\* C25: for every config and every pattern of strategy failures,
\* routeVideoAnalysis invokes the strategy at most 3 times, each time at a
\* different tier and in strictly descending fallback order (first tier,
\* then its getFallbackTier, then basic only if that fallback tier was not
\* already basic), and, every strategy invocation terminating, it always
\* ends in exactly one of a returned result or a raised error.
C25_BoundedDescendingTerminates ==
    /\ [](InvocationsBoundedAndDescending /\ EndedOneWay)
    /\ <>[](Finished /\ (result # NoResult \/ raised # NoError))

\* C25 witness: three invocations, cloud, full_ml and basic, the last one
\* failing too: the call ends with a raised error and no result.
C25_Witness ==
    /\ pc = "thrown"
    /\ TiersTried = <<"cloud", "full_ml", "basic">>
    /\ raised # NoError
    /\ result = NoResult

\* C26: routeVideoAnalysis never invokes the strategy at a tier for which
\* validateProcessingTier(tier, config) is false: neither the first attempt
\* nor any fallback attempt runs cloud without connectivity and consent, or
\* full_ml / lightweight_ml without mlFrameworkSupported, and a configured
\* tier that validation rejected is never executed later as a fallback.
C26_OnlyValidTiersInvoked ==
    \A i \in 1..Len(calls) :
        /\ validateProcessingTier(calls[i].tier, config)
        /\ calls[i].tier = "cloud" =>
              (config.hasConnectivity /\ config.userConsent.cloudProcessing)
        /\ calls[i].tier \in {"full_ml", "lightweight_ml"} =>
              config.deviceCapabilities.mlFrameworkSupported
        /\ ~validateProcessingTier(config.selectedTier, config) =>
              calls[i].tier # config.selectedTier

\* C26, the part the code keeps: the first invocation is at a valid tier;
\* a later one is at an invalid tier exactly when it is an ML tier and the
\* device has no ML framework support.
C26_CodeValidatesFirstAttemptOnly ==
    \A i \in 1..Len(calls) :
        IF i = 1 THEN validateProcessingTier(calls[i].tier, config)
        ELSE ~validateProcessingTier(calls[i].tier, config) <=>
                 (calls[i].tier \in {"full_ml", "lightweight_ml"}
                     /\ ~config.deviceCapabilities.mlFrameworkSupported)

\* C26: the configured tier full_ml was rejected (no ML framework support),
\* cloud was run instead and failed, and full_ml is run as its fallback.
C26_RejectedTierRunAsFallback ==
    /\ config.selectedTier = "full_ml"
    /\ ~validateProcessingTier("full_ml", config)
    /\ TiersTried = <<"cloud", "full_ml">>

\* C27: for every result returned by routeVideoAnalysis, fallbackUsed is
\* true if and only if result.tier differs from config.selectedTier.
C27_FallbackUsedIffTierDiffers ==
    pc = "returned" => (result.fallbackUsed <=> result.tier # config.selectedTier)

\* C27, what the code does: fallbackUsed is true exactly when the result
\* does not come from a first invocation at the configured tier; a result
\* at another tier than the configured one always has fallbackUsed, and
\* fallbackUsed with the configured tier happens only when that tier was
\* rejected by the validation and run later as a fallback.
C27_CodeFlagsEveryDetour ==
    pc = "returned" =>
        /\ result.fallbackUsed <=>
              (Len(calls) > 1 \/ calls[1].tier # config.selectedTier)
        /\ result.tier # config.selectedTier => result.fallbackUsed
        /\ (result.fallbackUsed /\ result.tier = config.selectedTier) =>
              (~validateProcessingTier(config.selectedTier, config) /\ Len(calls) = 2)

\* C27: a result at the configured tier with fallbackUsed true: full_ml was
\* rejected, cloud failed, full_ml succeeded as its fallback.
C27_FallbackUsedAtConfiguredTier ==
    /\ pc = "returned"
    /\ result.fallbackUsed
    /\ result.tier = config.selectedTier
    /\ TiersTried = <<"cloud", "full_ml">>

====
